---- MODULE Spec2Model ----
(***************************************************************************)
(* Diff segmenter (parseGitDiff) and exclusion filter (shouldExcludeFile)  *)
(* of the AI code review action.                                           *)
(*                                                                         *)
(* A JavaScript string is modelled as a sequence of one-character strings, *)
(* so that offsets, substrings and regular-expression matches are computed *)
(* character by character as the code computes them.  Offsets are 0-based  *)
(* as in JavaScript; s[k + 1] is the character at offset k.                *)
(***************************************************************************)
EXTENDS Integers, Sequences, FiniteSets, TLC

\* ------------------------------------------------------------------------
\* Bounds of the model
\* ------------------------------------------------------------------------

\* number of chunks (header lines, hunk lines) a generated diff text is made of
MaxChunks == 3

\* length of the generated file names of shouldExcludeFile
MaxNameLen == 3

\* length of the generated custom patterns
MaxPatternLen == 3

\* length of the custom lists made of the named patterns
MaxCustom == 2

\* longest value of the `excluded-files` input
MaxInputLen == 6

\* most files handed to generateTestsForChanges
MaxFiles == 2

\* most chunks a git command hands to its listeners
MaxData == 2

\* ------------------------------------------------------------------------
\* String primitives used by the code
\* ------------------------------------------------------------------------

\* p occurs in s at offset i
OccursAt(s, p, i) ==
  /\ i >= 0
  /\ i + Len(p) <= Len(s)
  /\ \A k \in 1..Len(p) : s[i + k] = p[k]

\* String.prototype.startsWith
StartsWith(s, p) == OccursAt(s, p, 0)

\* String.prototype.endsWith
EndsWith(s, p) == OccursAt(s, p, Len(s) - Len(p))

\* String.prototype.includes
Includes(s, p) == \E i \in 0..(Len(s) - Len(p)) : OccursAt(s, p, i)

\* String.prototype.substring(from, to), for 0 <= from <= to <= length
Substring(s, from, to) == SubSeq(s, from + 1, to)

\* characters the regular-expression atom `.` does not match (the line
\* terminators; U+2028 and U+2029 are in none of the model's texts)
IsLineTerminator(c) == c \in {"\n", "\r"}

\* ------------------------------------------------------------------------
\* fileRegex = /diff --git a\/(.*?) b\/(.*?)\n/g
\* ------------------------------------------------------------------------

HeaderPrefix == <<"d","i","f","f"," ","-","-","g","i","t"," ","a","/">>
HeaderSep == <<" ","b","/">>

\* offset of the first line terminator at or after offset i, Len(s) if none
DotRunEnd(s, i) ==
  IF \E k \in i..(Len(s) - 1) : IsLineTerminator(s[k + 1])
  THEN CHOOSE k \in i..(Len(s) - 1) :
         /\ IsLineTerminator(s[k + 1])
         /\ \A j \in i..(k - 1) : ~IsLineTerminator(s[j + 1])
  ELSE Len(s)

\* offsets j at which ` b/` can follow the lazy group (.*?) that starts at
\* offset g: the group holds no line terminator, and after ` b/` the second
\* lazy group runs to a "\n"
SepOffsets(s, g) ==
  LET e == DotRunEnd(s, g)
  IN  IF e < Len(s) /\ s[e + 1] = "\n"
      THEN {j \in g..(e - Len(HeaderSep)) : OccursAt(s, HeaderSep, j)}
      ELSE {}

\* fileRegex matches s with the match starting at offset i
MatchesAt(s, i) ==
  /\ OccursAt(s, HeaderPrefix, i)
  /\ SepOffsets(s, i + Len(HeaderPrefix)) # {}

Min(S) == CHOOSE x \in S : \A y \in S : x <= y

NoMatch == [found |-> FALSE, index |-> 0, end |-> 0, group1 |-> <<>>]

\* the match object of fileRegex with the match starting at offset i:
\* index, the offset after the match (the new lastIndex) and capture group 1
\* (lazy: it ends at the first ` b/` that lets the rest match)
MatchObject(s, i) ==
  LET g == i + Len(HeaderPrefix)
      j == Min(SepOffsets(s, g))
  IN  [found |-> TRUE, index |-> i, end |-> DotRunEnd(s, g) + 1,
       group1 |-> Substring(s, g, j)]

\* fileRegex.exec(s) with fileRegex.lastIndex = from: the leftmost match
\* starting at or after from, or null
Exec(s, from) ==
  LET starts == {i \in from..(Len(s) - 1) : MatchesAt(s, i)}
  IN  IF starts = {} THEN NoMatch ELSE MatchObject(s, Min(starts))

\* the characters String.prototype.trim removes, of those the model uses
WhiteSpace == {" ", "\t", "\n", "\r"}

RECURSIVE TrimStart(_)
TrimStart(s) ==
  IF s # <<>> /\ Head(s) \in WhiteSpace THEN TrimStart(Tail(s)) ELSE s

RECURSIVE TrimEnd(_)
TrimEnd(s) ==
  IF s # <<>> /\ s[Len(s)] \in WhiteSpace
  THEN TrimEnd(SubSeq(s, 1, Len(s) - 1)) ELSE s

\* String.prototype.trim
Trim(s) == TrimEnd(TrimStart(s))

\* ------------------------------------------------------------------------
\* parseGitDiff(diffOutput), the unfiltered segmenter
\* ------------------------------------------------------------------------

\* faulty variant: every record runs to the end of the input
FileEndAtEndOfInput(s, nextFileMatch) == Len(s)

\* fileEnd: where the record of the current match ends
FileEnd(s, nextFileMatch) ==
  IF nextFileMatch.found THEN nextFileMatch.index ELSE Len(s)

\* faulty variant: the scan position is left where the look-ahead exec put it
LastIndexNotReset(s, nextFileMatch) ==
  IF nextFileMatch.found THEN nextFileMatch.end ELSE Len(s)

\* faulty variant: the scan position is put back to the start of the input
LastIndexRewound(s, nextFileMatch) == 0

\* "Reset regex for next iteration": fileRegex.lastIndex after the look-ahead
ResetLastIndex(s, nextFileMatch) ==
  IF nextFileMatch.found THEN nextFileMatch.index ELSE Len(s)

\* the record pushed for a match
FileRecord(s, match, nextFileMatch) ==
  [fileName |-> match.group1,
   diff |-> Substring(s, match.index, FileEnd(s, nextFileMatch))]

\* ------------------------------------------------------------------------
\* shouldExcludeFile(fileName, customExclusions)
\* ------------------------------------------------------------------------

defaultExcludePatterns ==
  << \* Package manager files
     <<"p","a","c","k","a","g","e","-","l","o","c","k",".","j","s","o","n">>,
     <<"y","a","r","n",".","l","o","c","k">>,
     <<"p","n","p","m","-","l","o","c","k",".","y","a","m","l">>,
     <<"c","o","m","p","o","s","e","r",".","l","o","c","k">>,
     <<"P","i","p","f","i","l","e",".","l","o","c","k">>,
     <<"p","o","e","t","r","y",".","l","o","c","k">>,
     <<"G","e","m","f","i","l","e",".","l","o","c","k">>,
     \* Build/distribution files
     <<"d","i","s","t","/">>,
     <<"b","u","i","l","d","/">>,
     <<"c","o","v","e","r","a","g","e","/">>,
     <<"n","o","d","e","_","m","o","d","u","l","e","s","/">>,
     <<"v","e","n","d","o","r","/">>,
     <<".","n","e","x","t","/">>,
     <<".","n","u","x","t","/">>,
     \* Environment and config files
     <<".","e","n","v">>,
     <<".","e","n","v",".","l","o","c","a","l">>,
     <<".","e","n","v",".","p","r","o","d","u","c","t","i","o","n">>,
     <<".","e","n","v",".","d","e","v","e","l","o","p","m","e","n","t">>,
     \* Generated/compiled files
     <<".","m","i","n",".","j","s">>,
     <<".","m","i","n",".","c","s","s">>,
     <<".","b","u","n","d","l","e",".","j","s">>,
     <<".","c","h","u","n","k",".","j","s">>,
     \* Documentation and meta files
     <<"C","H","A","N","G","E","L","O","G",".","m","d">>,
     <<"C","H","A","N","G","E","L","O","G",".","t","x","t">>,
     <<"L","I","C","E","N","S","E">>,
     <<"L","I","C","E","N","S","E",".","t","x","t">>,
     <<"L","I","C","E","N","S","E",".","m","d">>,
     \* IDE and system files
     <<".","D","S","_","S","t","o","r","e">>,
     <<"T","h","u","m","b","s",".","d","b">>,
     <<".","v","s","c","o","d","e","/">>,
     <<".","i","d","e","a","/">>,
     \* Log files
     <<"*",".","l","o","g">>,
     <<"l","o","g","s","/">>,
     \* Temporary files
     <<"*",".","t","m","p">>,
     <<"*",".","t","e","m","p">>,
     <<"*",".","c","a","c","h","e">> >>

RECURSIVE ReplaceStars(_)
\* pattern.replace(/\*/g, '.*'): the source text of the regular expression
ReplaceStars(pattern) ==
  IF pattern = <<>> THEN <<>>
  ELSE (IF Head(pattern) = "*" THEN <<".", "*">> ELSE <<Head(pattern)>>)
         \o ReplaceStars(Tail(pattern))

\* Characters of regular-expression syntax that the patterns of this model
\* use: `.` (any character but a line terminator), `*` (the atom before it,
\* any number of times), `(` (opens a group) and `$` (the end of the input,
\* the expression has no `m` flag).  Every other character of the model's
\* patterns is a letter, a digit, `/`, `-` or `_` and stands for itself.
\*
\* new RegExp(source) throws a SyntaxError for a group that is never closed
\* (the model's patterns hold no `)`) and for a `*` with nothing to repeat.
RegExpThrows(source) ==
  \/ \E k \in 1..Len(source) : source[k] = "("
  \/ \E k \in 1..Len(source) :
       source[k] = "*" /\ (k = 1 \/ source[k - 1] = "*")

\* the term of source at position k is an atom followed by `*`
IsStarred(source, k) == k < Len(source) /\ source[k + 1] = "*"

\* the atom c of a regular expression matches the character ch
AtomMatches(c, ch) == IF c = "." THEN ~IsLineTerminator(ch) ELSE c = ch

RECURSIVE MatchesFrom(_, _, _, _)
\* the terms of source from position k on match s from offset i on
\* (a backtracking matcher: a starred atom is either done or takes one more
\* character it matches; greedy or not makes no difference to whether a
\* match exists)
MatchesFrom(source, k, s, i) ==
  IF k > Len(source) THEN TRUE
  ELSE IF IsStarred(source, k)
  THEN \/ MatchesFrom(source, k + 2, s, i)
       \/ /\ i < Len(s)
          /\ AtomMatches(source[k], s[i + 1])
          /\ MatchesFrom(source, k, s, i + 1)
  ELSE IF source[k] = "$"
  THEN i = Len(s) /\ MatchesFrom(source, k + 1, s, i)
  ELSE /\ i < Len(s)
       /\ AtomMatches(source[k], s[i + 1])
       /\ MatchesFrom(source, k + 1, s, i + 1)

\* RegExp.prototype.test of a regular expression without flags: a search,
\* the match may start at any offset
RegExpTest(source, s) == \E i \in 0..Len(s) : MatchesFrom(source, 1, s, i)

\* faulty variant: the directory name is looked for anywhere in the file name
DirectoryMatchAnywhere(pattern, fileName) ==
  StartsWith(fileName, pattern) \/ Includes(fileName, pattern)

\* faulty variant: a directory pattern matches at the start of the file name only
DirectoryMatchTopLevelOnly(pattern, fileName) == StartsWith(fileName, pattern)

\* "Handle directory patterns"
DirectoryMatch(pattern, fileName) ==
  StartsWith(fileName, pattern) \/ Includes(fileName, <<"/">> \o pattern)

\* faulty variant: the pattern is looked for as a suffix of the file name
ExactMatchAnySuffix(pattern, fileName) ==
  fileName = pattern \/ EndsWith(fileName, pattern)

\* "Handle exact matches"
ExactMatch(pattern, fileName) ==
  fileName = pattern \/ EndsWith(fileName, <<"/">> \o pattern)

\* the callback of allPatterns.some for one pattern: "true", "false", or
\* "SyntaxError" when new RegExp throws
PatternOutcome(pattern, fileName) ==
  IF Includes(pattern, <<"*">>)
  THEN IF RegExpThrows(ReplaceStars(pattern)) THEN "SyntaxError"
       ELSE IF RegExpTest(ReplaceStars(pattern), fileName) THEN "true"
       ELSE "false"
  ELSE IF EndsWith(pattern, <<"/">>)
  THEN IF DirectoryMatch(pattern, fileName) THEN "true" ELSE "false"
  ELSE IF ExactMatch(pattern, fileName) THEN "true" ELSE "false"

RECURSIVE Some(_, _)
\* Array.prototype.some with the callback above: the patterns are tried in
\* order, the first match ends the search, an exception ends the call
Some(patterns, fileName) ==
  IF patterns = <<>> THEN "false"
  ELSE LET o == PatternOutcome(Head(patterns), fileName)
       IN  IF o = "false" THEN Some(Tail(patterns), fileName) ELSE o

\* faulty variant: the custom patterns are not merged into the pattern list
AllPatternsDefaultsOnly(custom) == defaultExcludePatterns

\* "Combine default patterns with custom exclusions"
AllPatterns(custom) == defaultExcludePatterns \o custom

\* shouldExcludeFile: "true", "false", or "SyntaxError" when it throws
ShouldExcludeFile(name, custom) == Some(AllPatterns(custom), name)

\* ------------------------------------------------------------------------
\* Diff texts the segmenter is run on
\* ------------------------------------------------------------------------

NL == <<"\n">>

\* the header line git writes for path p
HeaderLine(p) == HeaderPrefix \o p \o HeaderSep \o p \o NL

\* paths of the generated diffs; .env is excluded by default
PathF == <<"f">>
PathG == <<"g">>
PathEnv == <<".","e","n","v">>
RealPaths == {PathF, PathG, PathEnv}

\* a hunk line that adds the text of a header line to a file
HunkHeaderText == <<"+","d","i","f","f"," ","-","-","g","i","t"," ","a","/","x"," ","b","/","x","\n">>
\* an ordinary hunk line
HunkLine == <<"+","x","\n">>
\* a header line cut off before its line feed
CutHeader == <<"d","i","f","f"," ","-","-","g","i","t"," ","a","/","h"," ","b","/","h">>

Chunks ==
  {HeaderLine(p) : p \in RealPaths} \cup {HunkHeaderText, HunkLine, CutHeader}

RECURSIVE ChunkTexts(_)
\* the concatenations of at most n chunks
ChunkTexts(n) ==
  IF n = 0 THEN {<<>>}
  ELSE LET shorter == ChunkTexts(n - 1)
       IN  shorter \cup {t \o c : t \in shorter, c \in Chunks}

\* the diff of the end-to-end scenario
ScenarioDiff ==
  HeaderLine(<<"R","E","A","D","M","E",".","m","d">>) \o HunkLine
    \o HeaderLine(<<"s","r","c","/","i","n","d","e","x",".","j","s">>) \o HunkLine
    \o HeaderLine(<<"p","a","c","k","a","g","e","-","l","o","c","k",".","j","s","o","n">>) \o HunkLine

\* a path with a directory whose name ends with ` b`
PathSpaced == <<"l","i","b"," ","b","/","x",".","j","s">>

\* the diff of one file under that directory
SpacedPathDiff == HeaderLine(PathSpaced) \o HunkLine

DiffInputs == ChunkTexts(MaxChunks) \cup {ScenarioDiff, SpacedPathDiff}

\* outputs of `git diff` that hold white space only
BlankOutputs == { <<>>, <<" ">>, <<"\n">>, <<" ","\n">>, <<"\n","\t","\n">> }

\* what execGitCommand may return for `git diff origin/main...HEAD`
GitOutputs == DiffInputs \cup BlankOutputs

\* custom exclusion lists the filtered segmenter is run with
SegmenterCustomLists == {<<>>, <<PathG>>, <<<<"*","(">>>>}

\* ------------------------------------------------------------------------
\* Inputs of shouldExcludeFile
\* ------------------------------------------------------------------------

RECURSIVE Texts(_, _)
\* the strings of at most n characters of alphabet
Texts(alphabet, n) ==
  IF n = 0 THEN {<<>>}
  ELSE LET shorter == Texts(alphabet, n - 1)
       IN  shorter \cup {t \o <<c>> : t \in shorter, c \in alphabet}

RECURSIVE Lists(_, _)
\* the lists of at most n elements of S
Lists(S, n) ==
  IF n = 0 THEN {<<>>}
  ELSE LET shorter == Lists(S, n - 1)
       IN  shorter \cup {Append(l, x) : l \in shorter, x \in S}

\* file names of the specification, the README and the default list
NamedFiles ==
  { <<"p","a","c","k","a","g","e","-","l","o","c","k",".","j","s","o","n">>, <<"a","/","b","/","n","o","d","e","_","m","o","d","u","l","e","s","/","x",".","j","s">>, <<"s","r","c","/","a","p","p",".","j","s">>,
    <<"n","o","t","e","s",".","m","d",".","b","a","k">>,
    <<"a","s","s","e","t","s","/","a","p","p",".","m","i","n",".","j","s">>, <<"x",".","m","i","n",".","c","s","s">>, <<"a",".","b","u","n","d","l","e",".","j","s">>, <<"a",".","c","h","u","n","k",".","j","s">>,
    <<".","m","i","n",".","j","s">>,
    <<".","e","n","v">>, <<"c","o","n","f","i","g","/",".","e","n","v",".","l","o","c","a","l">>, <<".","e","n","v",".","t","e","s","t">>, <<".","e","n","v",".","s","t","a","g","i","n","g">>,
    <<"l","e","g","a","c","y","/","o","l","d",".","j","s">>,
    <<"f","o","o",".","l","o","g">>, <<"f","o","o",".","l","o","g","g","e","r",".","j","s">>, <<"s","r","c","/","b","l","o","g",".","j","s">>,
    <<"b","u","i","l","d","/","x",".","j","s">>, <<"a","/","b","/","b","u","i","l","d","/","x",".","j","s">>, <<"r","e","b","u","i","l","d","/","x",".","j","s">>, <<"b","u","i","l","d">>,
    <<"L","I","C","E","N","S","E">>, <<"a","/","b","/","L","I","C","E","N","S","E">>, <<"M","Y","L","I","C","E","N","S","E">>, <<"L","I","C","E","N","S","E",".","b","a","k">>,
    <<"a","/","L","I","C","E","N","S","E","/","x">> }

NameAlphabet == {"a", ".", "/"}
PatternAlphabet == {"a", ".", "/", "*"}

FileNames == NamedFiles \cup Texts(NameAlphabet, MaxNameLen)

\* custom patterns: as processBranchChanges hands them over they are not
\* empty, trimmed and hold no comma
NamedPatterns ==
  { <<"l","e","g","a","c","y","/">>, <<"b","u","i","l","d","/">>, <<"L","I","C","E","N","S","E">>, <<"*",".","l","o","g">>, <<"*","(">> }

ShortPatterns == Texts(PatternAlphabet, MaxPatternLen) \ {<<>>}

CustomLists == Lists(NamedPatterns, MaxCustom)

\* a custom pattern that holds `$`, a character a file name may hold
AnchoredPatterns == { <<"*",".","l","o","g","$">> }

Patterns == NamedPatterns \cup AnchoredPatterns \cup ShortPatterns

\* ------------------------------------------------------------------------
\* State
\* ------------------------------------------------------------------------

VARIABLES
  diffOutput,        \* parseGitDiff's argument
  customExclusions,  \* the customExclusions argument
  lastIndex,         \* fileRegex.lastIndex of the running parseGitDiff
  files,             \* files of parseGitDiff(diffOutput)
  filteredFiles,     \* files of parseGitDiff(diffOutput, customExclusions)
  fileName,          \* shouldExcludeFile's argument
  excluded,          \* what shouldExcludeFile returned: "true" or "false"
  pattern,           \* the pattern the callback of some is called with
  matched,           \* what the callback returned: "true" or "false"
  pc,                \* where the run is, see the actions
  excludedFiles,     \* value of the action input `excluded-files`
  generateTests,     \* value of the action input `generate-tests`
  apiKeyInput,       \* value of the action input `openai-api-key`
  envApiKey,         \* process.env.OPENAI_API_KEY, "" when not set
  changedFiles,      \* generateTestsForChanges' argument, the file names
  testableFiles,     \* testableFiles of generateTestsForChanges
  fileIndex,         \* i of the loop over testableFiles
  testResults,       \* testResults of generateTestsForChanges
  apiCalls,          \* source files a chat completion was requested for
  writes,            \* test files written, oldest first
  generationEnabled, \* what isTestGenerationEnabled returned, or "none"
  filePath,          \* getTestConfig's argument
  testConfig,        \* what getTestConfig returned
  caller,            \* "run" inside run(), "none" for a call from outside
  failed,            \* what core.setFailed was called with, "" if it was not
  successLogged,     \* `Action completed successfully!` was logged
  output,            \* output of the running execGitCommand
  stdoutText,        \* what the running git command wrote to stdout
  reviewResults,     \* reviewResults of reviewChangesWithAI
  timeline,          \* chat completion requests and rate-limit waits, in
                     \* the order they began
  outstanding,       \* chat completion requests not settled yet
  successCount,      \* n of the line `Generated <n> test file(s)`
  received           \* chunks the listeners of the running git command got

\* state of git-diff.js
gitDiffVars == <<diffOutput, customExclusions, lastIndex, files,
                 filteredFiles, fileName, excluded, pattern, matched>>

\* state of main.js
mainVars == <<excludedFiles>>

\* state of test-generator.js
testGenVars == <<generateTests, apiKeyInput, envApiKey, changedFiles,
                 testableFiles, fileIndex, testResults, apiCalls, writes,
                 generationEnabled, filePath, testConfig>>

\* state of run(), of execGitCommand and of ai-reviewer.js, and what the
\* run did to the outside
runVars == <<caller, failed, successLogged, output, stdoutText,
             reviewResults, timeline, outstanding, successCount, received>>

vars == <<gitDiffVars, mainVars, testGenVars, runVars, pc>>

\* values of these variables while another module is looked at
RunIdle ==
  /\ caller = "none"
  /\ failed = <<>>
  /\ successLogged = FALSE
  /\ output = <<>>
  /\ stdoutText = <<>>
  /\ reviewResults = <<>>
  /\ timeline = <<>>
  /\ outstanding = 0
  /\ successCount = 0
  /\ received = 0

\* values of the variables of main.js while another module is looked at
MainIdle == excludedFiles = <<>>

\* no test configuration computed yet
NoConfig == [path |-> <<>>, framework |-> "none"]

\* values of the variables of test-generator.js while another module is
\* looked at
TestGenIdle ==
  /\ generateTests = <<>>
  /\ apiKeyInput = <<>>
  /\ envApiKey = <<>>
  /\ changedFiles = <<>>
  /\ testableFiles = <<>>
  /\ fileIndex = 0
  /\ testResults = <<>>
  /\ apiCalls = <<>>
  /\ writes = <<>>
  /\ generationEnabled = "none"
  /\ filePath = <<>>
  /\ testConfig = NoConfig

\* values of the variables of git-diff.js while another module is looked at
GitDiffIdle ==
  /\ diffOutput = <<>>
  /\ customExclusions = <<>>
  /\ lastIndex = 0
  /\ files = <<>>
  /\ filteredFiles = <<>>
  /\ fileName = <<>>
  /\ excluded = "none"
  /\ pattern = <<>>
  /\ matched = "none"

\* ------------------------------------------------------------------------
\* Segmenter: parseGitDiff(diffOutput), then
\* parseGitDiff(diffOutput, customExclusions), on the same diff text
\* ------------------------------------------------------------------------

Init ==
  /\ diffOutput \in DiffInputs
  /\ customExclusions \in SegmenterCustomLists
  /\ lastIndex = 0
  /\ files = <<>>
  /\ filteredFiles = <<>>
  /\ fileName = <<>>
  /\ excluded = "none"
  /\ pattern = <<>>
  /\ matched = "none"
  /\ pc = "plain"
  /\ MainIdle
  /\ RunIdle
  /\ TestGenIdle

\* unfiltered parseGitDiff, one pass through the while loop body: a header
\* was found
ParseIteration ==
  /\ pc = "plain"
  /\ \E match \in {Exec(diffOutput, lastIndex)} :
     \E nextFileMatch \in {IF match.found THEN Exec(diffOutput, match.end)
                          ELSE NoMatch} :
         /\ match.found
         /\ lastIndex' = ResetLastIndex(diffOutput, nextFileMatch)
         /\ files' = Append(files, FileRecord(diffOutput, match, nextFileMatch))
  /\ UNCHANGED <<diffOutput, customExclusions, filteredFiles, fileName,
                 excluded, pattern, matched, pc>>
  /\ UNCHANGED <<mainVars, testGenVars, runVars>>

\* unfiltered parseGitDiff: exec returns null, the loop ends and files is
\* returned; the filtered parseGitDiff starts with a regular expression of
\* its own
ParseReturn ==
  /\ pc = "plain"
  /\ ~Exec(diffOutput, lastIndex).found
  /\ lastIndex' = 0
  /\ pc' = "filtered"
  /\ UNCHANGED <<diffOutput, customExclusions, files, filteredFiles,
                 fileName, excluded, pattern, matched>>
  /\ UNCHANGED <<mainVars, testGenVars, runVars>>

\* filtered parseGitDiff: the file of the header found is excluded, continue
FilteredSkip ==
  /\ pc = "filtered"
  /\ \E match \in {Exec(diffOutput, lastIndex)} :
         /\ match.found
         /\ ShouldExcludeFile(match.group1, customExclusions) = "true"
         /\ lastIndex' = match.end
  /\ UNCHANGED <<diffOutput, customExclusions, files, filteredFiles,
                 fileName, excluded, pattern, matched, pc>>
  /\ UNCHANGED <<mainVars, testGenVars, runVars>>

\* filtered parseGitDiff: the file of the header found is kept
FilteredIteration ==
  /\ pc = "filtered"
  /\ \E match \in {Exec(diffOutput, lastIndex)} :
     \E nextFileMatch \in {IF match.found THEN Exec(diffOutput, match.end)
                          ELSE NoMatch} :
         /\ match.found
         /\ ShouldExcludeFile(match.group1, customExclusions) = "false"
         /\ lastIndex' = ResetLastIndex(diffOutput, nextFileMatch)
         /\ filteredFiles' =
              Append(filteredFiles, FileRecord(diffOutput, match, nextFileMatch))
  /\ UNCHANGED <<diffOutput, customExclusions, files, fileName, excluded,
                 pattern, matched, pc>>
  /\ UNCHANGED <<mainVars, testGenVars, runVars>>

\* filtered parseGitDiff: shouldExcludeFile throws, and so does parseGitDiff
FilteredThrow ==
  /\ pc = "filtered"
  /\ \E match \in {Exec(diffOutput, lastIndex)} :
         /\ match.found
         /\ ShouldExcludeFile(match.group1, customExclusions) = "SyntaxError"
  /\ pc' = "threw"
  /\ UNCHANGED <<diffOutput, customExclusions, lastIndex, files,
                 filteredFiles, fileName, excluded, pattern, matched>>
  /\ UNCHANGED <<mainVars, testGenVars, runVars>>

\* filtered parseGitDiff: exec returns null, filteredFiles is returned
FilteredReturn ==
  /\ pc = "filtered"
  /\ ~Exec(diffOutput, lastIndex).found
  /\ lastIndex' = 0
  /\ pc' = "returned"
  /\ UNCHANGED <<diffOutput, customExclusions, files, filteredFiles,
                 fileName, excluded, pattern, matched>>
  /\ UNCHANGED <<mainVars, testGenVars, runVars>>

Next ==
  \/ ParseIteration
  \/ ParseReturn
  \/ FilteredSkip
  \/ FilteredIteration
  \/ FilteredThrow
  \/ FilteredReturn

Spec == Init /\ [][Next]_vars

\* diffs made of header lines and cut headers only, with the scenario diffs
HeaderChunks == {HeaderLine(PathG), CutHeader}

RECURSIVE HeaderTexts(_)
HeaderTexts(n) ==
  IF n = 0 THEN {<<>>}
  ELSE LET shorter == HeaderTexts(n - 1)
       IN  shorter \cup {t \o c : t \in shorter, c \in HeaderChunks}

ProgressInputs == HeaderTexts(MaxChunks) \cup {ScenarioDiff, SpacedPathDiff}

InitProgress ==
  /\ diffOutput \in ProgressInputs
  /\ customExclusions \in SegmenterCustomLists
  /\ lastIndex = 0
  /\ files = <<>>
  /\ filteredFiles = <<>>
  /\ fileName = <<>>
  /\ excluded = "none"
  /\ pattern = <<>>
  /\ matched = "none"
  /\ pc = "plain"
  /\ MainIdle
  /\ RunIdle
  /\ TestGenIdle

\* both loops are sequential code that nothing suspends: a pass or a return
\* that can be taken is taken
SpecProgress == InitProgress /\ [][Next]_vars /\ WF_vars(Next)

\* ------------------------------------------------------------------------
\* getChangedFiles(customExclusions): fetch, diff, then the filtered
\* parseGitDiff unless the diff output is blank
\* ------------------------------------------------------------------------

InitChanged ==
  /\ diffOutput = <<>>
  /\ customExclusions \in SegmenterCustomLists
  /\ lastIndex = 0
  /\ files = <<>>
  /\ filteredFiles = <<>>
  /\ fileName = <<>>
  /\ excluded = "none"
  /\ pattern = <<>>
  /\ matched = "none"
  /\ pc = "fetch"
  /\ MainIdle
  /\ RunIdle
  /\ TestGenIdle

\* await fetchMainBranch(): git exits with 0
FetchMainBranch ==
  /\ pc = "fetch"
  /\ pc' = "diff"
  /\ UNCHANGED <<diffOutput, customExclusions, lastIndex, files,
                 filteredFiles, fileName, excluded, pattern, matched>>
  /\ UNCHANGED <<mainVars, testGenVars, runVars>>

\* await getBranchDiff(): git exits with 0, the listeners have collected
\* its output
GetBranchDiff ==
  /\ pc = "diff"
  /\ diffOutput' \in GitOutputs
  /\ pc' = "check"
  /\ UNCHANGED <<customExclusions, lastIndex, files, filteredFiles,
                 fileName, excluded, pattern, matched>>
  /\ UNCHANGED <<mainVars, testGenVars, runVars>>

\* exec.exec rejects (git fails) in fetchMainBranch or getBranchDiff; the
\* catch block throws "Failed to get changed files"
GitCommandFails ==
  /\ pc \in {"fetch", "diff"}
  /\ pc' = "threw"
  /\ UNCHANGED <<diffOutput, customExclusions, lastIndex, files,
                 filteredFiles, fileName, excluded, pattern, matched>>
  /\ UNCHANGED <<mainVars, testGenVars, runVars>>

\* diffOutput.trim().length === 0: return [] ("No changes")
ReturnNoChanges ==
  /\ pc = "check"
  /\ Len(Trim(diffOutput)) = 0
  /\ pc' = "returnedEmpty"
  /\ UNCHANGED <<diffOutput, customExclusions, lastIndex, files,
                 filteredFiles, fileName, excluded, pattern, matched>>
  /\ UNCHANGED <<mainVars, testGenVars, runVars>>

\* return parseGitDiff(diffOutput, customExclusions)
CallParseGitDiff ==
  /\ pc = "check"
  /\ Len(Trim(diffOutput)) # 0
  /\ lastIndex' = 0
  /\ pc' = "filtered"
  /\ UNCHANGED <<diffOutput, customExclusions, files, filteredFiles,
                 fileName, excluded, pattern, matched>>
  /\ UNCHANGED <<mainVars, testGenVars, runVars>>

NextChanged ==
  \/ FetchMainBranch
  \/ GetBranchDiff
  \/ GitCommandFails
  \/ ReturnNoChanges
  \/ CallParseGitDiff
  \/ FilteredSkip
  \/ FilteredIteration
  \/ FilteredThrow
  \/ FilteredReturn

SpecChanged == InitChanged /\ [][NextChanged]_vars

\* ------------------------------------------------------------------------
\* Exclusion filter: one call shouldExcludeFile(fileName, customExclusions)
\* ------------------------------------------------------------------------

InitExclude ==
  /\ fileName \in NamedFiles
  /\ customExclusions \in CustomLists
  /\ excluded = "none"
  /\ pc = "call"
  /\ MainIdle
  /\ RunIdle
  /\ TestGenIdle
  /\ diffOutput = <<>>
  /\ lastIndex = 0
  /\ files = <<>>
  /\ filteredFiles = <<>>
  /\ pattern = <<>>
  /\ matched = "none"

\* the call: it returns a boolean, or new RegExp throws inside it
CallShouldExcludeFile ==
  /\ pc = "call"
  /\ LET outcome == ShouldExcludeFile(fileName, customExclusions)
     IN  IF outcome = "SyntaxError"
         THEN pc' = "threw" /\ excluded' = excluded
         ELSE pc' = "returned" /\ excluded' = outcome
  /\ UNCHANGED <<diffOutput, customExclusions, lastIndex, files,
                 filteredFiles, fileName, pattern, matched>>
  /\ UNCHANGED <<mainVars, testGenVars, runVars>>

NextExclude == CallShouldExcludeFile

SpecExclude == InitExclude /\ [][NextExclude]_vars

\* ------------------------------------------------------------------------
\* Pattern matching: one call of the callback that shouldExcludeFile hands
\* to some, for one pattern and one file name
\* ------------------------------------------------------------------------

InitPattern ==
  /\ pattern \in Patterns
  /\ fileName \in FileNames
  /\ matched = "none"
  /\ pc = "callback"
  /\ MainIdle
  /\ RunIdle
  /\ TestGenIdle
  /\ customExclusions = <<>>
  /\ excluded = "none"
  /\ diffOutput = <<>>
  /\ lastIndex = 0
  /\ files = <<>>
  /\ filteredFiles = <<>>

\* the callback returns a boolean
CallbackReturn ==
  /\ pc = "callback"
  /\ PatternOutcome(pattern, fileName) # "SyntaxError"
  /\ matched' = PatternOutcome(pattern, fileName)
  /\ pc' = "returned"
  /\ UNCHANGED <<diffOutput, customExclusions, lastIndex, files,
                 filteredFiles, fileName, excluded, pattern>>
  /\ UNCHANGED <<mainVars, testGenVars, runVars>>

\* new RegExp throws
CallbackThrow ==
  /\ pc = "callback"
  /\ PatternOutcome(pattern, fileName) = "SyntaxError"
  /\ pc' = "threw"
  /\ UNCHANGED <<diffOutput, customExclusions, lastIndex, files,
                 filteredFiles, fileName, excluded, pattern, matched>>
  /\ UNCHANGED <<mainVars, testGenVars, runVars>>

NextPattern == CallbackReturn \/ CallbackThrow

SpecPattern == InitPattern /\ [][NextPattern]_vars

\* ------------------------------------------------------------------------
\* processBranchChanges: the custom exclusion patterns are read from the
\* `excluded-files` input; getChangedFiles is called with them next
\* ------------------------------------------------------------------------

\* characters of the values of `excluded-files`
InputAlphabet == {"a", "*", ",", " "}

\* core.getInput(name): the value with the white space at its ends removed
GetInput(value) == Trim(value)

RECURSIVE Split(_, _)
\* String.prototype.split with a separator of one character
Split(s, sep) ==
  IF \E k \in 1..Len(s) : s[k] = sep
  THEN LET k == Min({j \in 1..Len(s) : s[j] = sep})
       IN  <<SubSeq(s, 1, k - 1)>> \o Split(SubSeq(s, k + 1, Len(s)), sep)
  ELSE <<s>>

\* .map((pattern) => pattern.trim())
MapTrim(pieces) == [i \in 1..Len(pieces) |-> Trim(pieces[i])]

\* a string is truthy when it is not empty
IsTruthy(s) == s # <<>>

\* faulty variant: the empty pieces are kept
FilterNothing(pieces) == pieces

\* .filter(Boolean)
FilterBoolean(pieces) == SelectSeq(pieces, IsTruthy)

\* customExclusions of processBranchChanges
CustomExclusionsOf(excludedFilesInput) ==
  IF IsTruthy(excludedFilesInput)
  THEN FilterBoolean(MapTrim(Split(excludedFilesInput, ",")))
  ELSE <<>>

InitInput ==
  /\ excludedFiles \in Texts(InputAlphabet, MaxInputLen)
  /\ pc = "main"
  /\ GitDiffIdle
  /\ TestGenIdle
  /\ RunIdle

\* const customExclusions = excludedFilesInput ? ... : []
ReadExcludedFiles ==
  /\ pc = "main"
  /\ customExclusions' = CustomExclusionsOf(GetInput(excludedFiles))
  /\ pc' = "getChangedFiles"
  /\ UNCHANGED <<diffOutput, lastIndex, files, filteredFiles, fileName,
                 excluded, pattern, matched>>
  /\ UNCHANGED <<mainVars, testGenVars, runVars>>

NextInput == ReadExcludedFiles

SpecInput == InitInput /\ [][NextInput]_vars

\* ------------------------------------------------------------------------
\* getTestConfig(filePath), with extname, dirname and basename of node:path
\* (POSIX) for relative paths without `//` and without a trailing `/`
\* ------------------------------------------------------------------------

Max(S) == CHOOSE x \in S : \A y \in S : y <= x

\* offset right after the last `/` of p, 0 when p has none
SegmentStart(p) == Max({0} \cup {k \in 1..Len(p) : p[k] = "/"})

\* the last segment of p
LastSegment(p) == SubSeq(p, SegmentStart(p) + 1, Len(p))

\* path.extname: from the last `.` of the last segment on; "" when the
\* segment has no `.`, when its only `.` is its first character, and for `..`
extname(p) ==
  LET seg == LastSegment(p)
      dots == {k \in 2..Len(seg) : seg[k] = "."}
  IN  IF dots = {} \/ seg = <<".",".">> THEN <<>>
      ELSE SubSeq(seg, Max(dots), Len(seg))

\* path.dirname
dirname(p) ==
  IF SegmentStart(p) = 0 THEN <<".">>
  ELSE IF SegmentStart(p) = 1 THEN <<"/">>
  ELSE SubSeq(p, 1, SegmentStart(p) - 1)

\* faulty variant: the extension is left on the name
basenameWithExt(p, ext) == LastSegment(p)

\* path.basename(p, ext): the last segment, without ext when it ends with
\* ext and is more than ext
basename(p, ext) ==
  LET seg == LastSegment(p)
  IN  IF ext # <<>> /\ Len(ext) < Len(seg) /\ EndsWith(seg, ext)
      THEN SubSeq(seg, 1, Len(seg) - Len(ext))
      ELSE IF ext # <<>> /\ ext = p THEN <<>>
      ELSE seg

\* testPatterns[ext] || { the jest default }
getTestConfig(path) ==
  LET ext == extname(path)
      dir == dirname(path)
      name == basename(path, ext)
      stem == dir \o <<"/">> \o name
  IN  IF ext \in {<<".","j","s">>, <<".","t","s">>, <<".","j","s","x">>, <<".","t","s","x">>}
      THEN [path |-> stem \o <<".","t","e","s","t">> \o ext, framework |-> "jest"]
      ELSE IF ext = <<".","p","y">>
      THEN [path |-> dir \o <<"/","t","e","s","t","_">> \o name \o <<".","p","y">>,
            framework |-> "pytest"]
      ELSE IF ext = <<".","j","a","v","a">>
      THEN [path |-> stem \o <<"T","e","s","t",".","j","a","v","a">>, framework |-> "junit"]
      ELSE [path |-> stem \o <<".","t","e","s","t",".","j","s">>, framework |-> "jest"]

\* directories, names and extensions the source files of the model are
\* made of; no directory and no extension are among them
SourceDirs == { <<>>, <<"s","r","c">>, <<"a","/","b">>, <<"l","i","b",".","d">> }
SourceNames == { <<"a","p","p">>, <<"A","p","p">>, <<"a",".","b">>, <<".","e","s","l","i","n","t","r","c">>, <<"x">> }
SourceExts ==
  { <<>>, <<".","j","s">>, <<".","t","s">>, <<".","j","s","x">>, <<".","t","s","x">>, <<".","p","y">>, <<".","j","a","v","a">>,
    <<".","r","b">>, <<".","J","S">>, <<".","m","j","s">> }

JoinPath(d, f) == IF d = <<>> THEN f ELSE d \o <<"/">> \o f

SourcePaths ==
  {JoinPath(d, n \o e) : d \in SourceDirs, n \in SourceNames, e \in SourceExts}

InitConfig ==
  /\ filePath \in SourcePaths
  /\ testConfig = NoConfig
  /\ pc = "getTestConfig"
  /\ generateTests = <<>>
  /\ apiKeyInput = <<>>
  /\ envApiKey = <<>>
  /\ changedFiles = <<>>
  /\ testableFiles = <<>>
  /\ fileIndex = 0
  /\ testResults = <<>>
  /\ apiCalls = <<>>
  /\ writes = <<>>
  /\ generationEnabled = "none"
  /\ GitDiffIdle
  /\ MainIdle
  /\ RunIdle

CallGetTestConfig ==
  /\ pc = "getTestConfig"
  /\ testConfig' = getTestConfig(filePath)
  /\ pc' = "returned"
  /\ UNCHANGED <<generateTests, apiKeyInput, envApiKey, changedFiles,
                 testableFiles, fileIndex, testResults, apiCalls, writes,
                 generationEnabled, filePath>>
  /\ UNCHANGED <<gitDiffVars, mainVars, runVars>>

NextConfig == CallGetTestConfig

SpecConfig == InitConfig /\ [][NextConfig]_vars

\* ------------------------------------------------------------------------
\* generateTestsForChanges(files) and isTestGenerationEnabled()
\* ------------------------------------------------------------------------

\* milliseconds of the wait between two requests
RateLimitDelay == 1000

\* an entry of the timeline: "client" (a client is created), "request" (a
\* chat completion request for the file begins), "error" (the request is
\* rejected) or "wait" (await wait(ms) begins)
Event(kind, name, ms) == [kind |-> kind, fileName |-> name, ms |-> ms]

\* values of the `generate-tests` input; the empty one is the input not set
GenerateTestsValues == { <<"t","r","u","e">>, <<"f","a","l","s","e">>, <<>>, <<"T","r","u","e">> }

\* values of the `openai-api-key` input and of OPENAI_API_KEY
ApiKeys == { <<>>, <<"s","k">> }

\* faulty variant: a placeholder key stands in when no key is set
getOpenAIConfigPlaceholder(input, env) ==
  IF IsTruthy(input) THEN input
  ELSE IF IsTruthy(env) THEN env ELSE <<"s","k">>

\* getOpenAIConfig, its apiKey field; the empty string stands for null
getOpenAIConfig(input, env) == IF IsTruthy(input) THEN input ELSE env

\* faulty variant: generation is on unless it is turned off
ShouldGenerateTestsUnlessFalse(value) == value # <<"f","a","l","s","e">>

\* core.getInput('generate-tests') === 'true'
ShouldGenerateTests(value) == value = <<"t","r","u","e">>

\* return config !== null && shouldGenerateTests
isTestGenerationEnabled(input, env, value) ==
  IsTruthy(getOpenAIConfig(input, env)) /\ ShouldGenerateTests(value)

UpperCase == <<"A","B","C","D","E","F","G","H","I","J","K","L","M","N","O","P","Q","R","S","T","U","V","W","X","Y","Z">>
LowerCase == <<"a","b","c","d","e","f","g","h","i","j","k","l","m","n","o","p","q","r","s","t","u","v","w","x","y","z">>

\* String.prototype.toLowerCase, for the letters A to Z
toLowerCase(s) ==
  [k \in 1..Len(s) |->
     IF \E u \in 1..Len(UpperCase) : UpperCase[u] = s[k]
     THEN LowerCase[CHOOSE u \in 1..Len(UpperCase) : UpperCase[u] = s[k]]
     ELSE s[k]]

\* faulty variant: the name is compared as it is written
IsTestableAsWritten(name) ==
  /\ ~Includes(name, <<".","t","e","s","t",".">>)
  /\ ~Includes(name, <<".","s","p","e","c",".">>)
  /\ ~Includes(name, <<"_","_","t","e","s","t","s","_","_">>)
  /\ ~Includes(name, <<".","c","o","n","f","i","g",".">>)
  /\ ~Includes(name, <<".","m","i","n",".">>)
  /\ ~EndsWith(name, <<".","m","d">>)
  /\ ~EndsWith(name, <<".","j","s","o","n">>)
  /\ ~EndsWith(name, <<".","y","m","l">>)
  /\ ~EndsWith(name, <<".","y","a","m","l">>)

\* the callback of files.filter: "Filter files that should have tests"
IsTestable(name) ==
  LET lowered == toLowerCase(name)
  IN  /\ ~Includes(lowered, <<".","t","e","s","t",".">>)
      /\ ~Includes(lowered, <<".","s","p","e","c",".">>)
      /\ ~Includes(lowered, <<"_","_","t","e","s","t","s","_","_">>)
      /\ ~Includes(lowered, <<".","c","o","n","f","i","g",".">>)
      /\ ~Includes(lowered, <<".","m","i","n",".">>)
      /\ ~EndsWith(lowered, <<".","m","d">>)
      /\ ~EndsWith(lowered, <<".","j","s","o","n">>)
      /\ ~EndsWith(lowered, <<".","y","m","l">>)
      /\ ~EndsWith(lowered, <<".","y","a","m","l">>)

\* names of changed files
ChangedNames ==
  { <<"s","r","c","/","a","p","p",".","j","s">>, <<"m","a","i","n",".","p","y">>, <<"a",".","j","s","o","n",".","t","s">>,
    <<"s","r","c","/","a","p","p",".","t","e","s","t",".","j","s">>, <<"s","r","c","/","A","p","p",".","T","e","s","t",".","j","s">>, <<"a",".","s","p","e","c",".","t","s">>,
    <<"_","_","t","e","s","t","s","_","_","/","a",".","j","s">>, <<"j","e","s","t",".","c","o","n","f","i","g",".","j","s">>, <<"l","i","b",".","m","i","n",".","j","s">>, <<"R","E","A","D","M","E",".","m","d">>,
    <<"d","o","c","s","/","G","U","I","D","E",".","M","D">>, <<"p","a","c","k","a","g","e",".","j","s","o","n">>, <<"c","i",".","y","m","l">>, <<"a",".","y","a","m","l">> }

InitTests ==
  /\ generateTests \in GenerateTestsValues
  /\ apiKeyInput \in ApiKeys
  /\ envApiKey \in ApiKeys
  /\ changedFiles \in Lists(ChangedNames, MaxFiles)
  /\ testableFiles = <<>>
  /\ fileIndex = 0
  /\ testResults = <<>>
  /\ apiCalls = <<>>
  /\ writes = <<>>
  /\ generationEnabled = "none"
  /\ filePath = <<>>
  /\ testConfig = NoConfig
  /\ pc = "generateTests"
  /\ GitDiffIdle
  /\ MainIdle
  /\ RunIdle

\* a call of isTestGenerationEnabled() before the tests are generated
CallIsTestGenerationEnabled ==
  /\ pc = "generateTests"
  /\ generationEnabled = "none"
  /\ generationEnabled' =
       IF isTestGenerationEnabled(apiKeyInput, envApiKey, generateTests)
       THEN "true" ELSE "false"
  /\ UNCHANGED <<generateTests, apiKeyInput, envApiKey, changedFiles,
                 testableFiles, fileIndex, testResults, apiCalls, writes,
                 filePath, testConfig, pc>>
  /\ UNCHANGED <<gitDiffVars, mainVars, runVars>>

\* the three early returns: generation disabled, no API key, no files
ReturnEarly ==
  /\ pc = "generateTests"
  /\ \/ ~ShouldGenerateTests(generateTests)
     \/ ~IsTruthy(getOpenAIConfig(apiKeyInput, envApiKey))
     \/ Len(changedFiles) = 0
  /\ pc' = "returned"
  /\ UNCHANGED <<generateTests, apiKeyInput, envApiKey, changedFiles,
                 testableFiles, fileIndex, testResults, apiCalls, writes,
                 generationEnabled, filePath, testConfig>>
  /\ UNCHANGED <<gitDiffVars, mainVars, runVars>>

\* await loadTestInstructions(): the instructions are loaded (the function
\* is imported from config.js, which does not define it among the source
\* files at hand; it is taken to return, as loadReviewInstructions does)
LoadTestInstructions ==
  /\ pc = "generateTests"
  /\ ShouldGenerateTests(generateTests)
  /\ IsTruthy(getOpenAIConfig(apiKeyInput, envApiKey))
  /\ Len(changedFiles) # 0
  /\ pc' = "filter"
  /\ UNCHANGED <<generateTests, apiKeyInput, envApiKey, changedFiles,
                 testableFiles, fileIndex, testResults, apiCalls, writes,
                 generationEnabled, filePath, testConfig>>
  /\ UNCHANGED <<gitDiffVars, mainVars, runVars>>

\* testableFiles = files.filter(...); return [] when none is left, else the
\* client is created and the loop starts
FilterFiles ==
  /\ pc = "filter"
  /\ testableFiles' = SelectSeq(changedFiles, IsTestable)
  /\ fileIndex' = 1
  /\ IF Len(testableFiles') = 0
     THEN /\ pc' = "returned"
          /\ timeline' = timeline
     ELSE /\ pc' = "loop"
          /\ timeline' = Append(timeline, Event("client", <<>>, 0))
  /\ UNCHANGED <<generateTests, apiKeyInput, envApiKey, changedFiles,
                 testResults, apiCalls, writes, generationEnabled, filePath,
                 testConfig>>
  /\ UNCHANGED <<gitDiffVars, mainVars, caller, failed, successLogged,
                 output, stdoutText, reviewResults, outstanding,
                 successCount, received>>

\* readFileContent returns '' (the file cannot be read, or is empty): continue
SkipUnreadable ==
  /\ pc = "loop"
  /\ fileIndex <= Len(testableFiles)
  /\ fileIndex' = fileIndex + 1
  /\ UNCHANGED <<generateTests, apiKeyInput, envApiKey, changedFiles,
                 testableFiles, testResults, apiCalls, writes,
                 generationEnabled, filePath, testConfig, pc>>
  /\ UNCHANGED <<gitDiffVars, mainVars, runVars>>

\* the file was read; generateTestForFile computes the test configuration
\* and sends the chat completion request
RequestTest ==
  /\ pc = "loop"
  /\ fileIndex <= Len(testableFiles)
  /\ filePath' = testableFiles[fileIndex]
  /\ testConfig' = getTestConfig(testableFiles[fileIndex])
  /\ apiCalls' = Append(apiCalls, testableFiles[fileIndex])
  /\ timeline' = Append(timeline, Event("request", testableFiles[fileIndex], 0))
  /\ outstanding' = outstanding + 1
  /\ pc' = "awaiting"
  /\ UNCHANGED <<generateTests, apiKeyInput, envApiKey, changedFiles,
                 testableFiles, fileIndex, testResults, writes,
                 generationEnabled>>
  /\ UNCHANGED <<gitDiffVars, mainVars, caller, failed, successLogged,
                 output, stdoutText, reviewResults, successCount, received>>

\* how a request and the write after it may end: test content written,
\* content that writeTestFile fails to write, no content, request failed
Outcomes == {"written", "writeFailed", "empty", "failed"}

\* faulty variant: a failed request is reported as a success
TestResultAlwaysSuccess(outcome) ==
  [fileName |-> filePath,
   path |-> IF outcome = "failed" THEN <<>> ELSE testConfig.path,
   success |-> TRUE,
   written |-> IF outcome = "written" THEN "true"
               ELSE IF outcome = "writeFailed" THEN "false"
               ELSE "undefined"]

\* the testResult pushed for the file of testConfig
TestResult(outcome) ==
  [fileName |-> filePath,
   path |-> IF outcome = "failed" THEN <<>> ELSE testConfig.path,
   success |-> outcome # "failed",
   written |-> IF outcome = "written" THEN "true"
               ELSE IF outcome = "writeFailed" THEN "false"
               ELSE "undefined"]

\* generateTestForFile settles; the result is pushed, the test file is
\* written when there is content, and the loop waits unless the file is the
\* last one
ReceiveTest ==
  /\ pc = "awaiting"
  /\ \E outcome \in Outcomes :
       /\ testResults' = Append(testResults, TestResult(outcome))
       /\ writes' = IF outcome = "written"
                    THEN Append(writes, [fileName |-> filePath,
                                         path |-> testConfig.path])
                    ELSE writes
  /\ outstanding' = outstanding - 1
  /\ IF fileIndex < Len(testableFiles)
     THEN /\ pc' = "waiting"
          /\ fileIndex' = fileIndex
          /\ timeline' = Append(timeline, Event("wait", <<>>, RateLimitDelay))
     ELSE /\ pc' = "loop"
          /\ fileIndex' = fileIndex + 1
          /\ timeline' = timeline
  /\ UNCHANGED <<generateTests, apiKeyInput, envApiKey, changedFiles,
                 testableFiles, apiCalls, generationEnabled, filePath,
                 testConfig>>
  /\ UNCHANGED <<gitDiffVars, mainVars, caller, failed, successLogged,
                 output, stdoutText, reviewResults, successCount, received>>

\* await wait(1000) is over
WaitDone ==
  /\ pc = "waiting"
  /\ fileIndex' = fileIndex + 1
  /\ pc' = "loop"
  /\ UNCHANGED <<generateTests, apiKeyInput, envApiKey, changedFiles,
                 testableFiles, testResults, apiCalls, writes,
                 generationEnabled, filePath, testConfig>>
  /\ UNCHANGED <<gitDiffVars, mainVars, runVars>>

\* faulty variant: every result with content counts
SuccessCountOfResults(results) ==
  Cardinality({k \in 1..Len(results) : results[k].success})

\* testResults.filter((r) => r.success && r.written).length
SuccessCount(results) ==
  Cardinality({k \in 1..Len(results) :
                 results[k].success /\ results[k].written = "true"})

\* the loop is over: the count of generated test files is logged and
\* testResults is returned
ReturnResults ==
  /\ pc = "loop"
  /\ fileIndex > Len(testableFiles)
  /\ successCount' = SuccessCount(testResults)
  /\ pc' = "returned"
  /\ UNCHANGED <<generateTests, apiKeyInput, envApiKey, changedFiles,
                 testableFiles, fileIndex, testResults, apiCalls, writes,
                 generationEnabled, filePath, testConfig>>
  /\ UNCHANGED <<gitDiffVars, mainVars, caller, failed, successLogged,
                 output, stdoutText, reviewResults, timeline, outstanding,
                 received>>

NextTests ==
  \/ CallIsTestGenerationEnabled
  \/ ReturnEarly
  \/ LoadTestInstructions
  \/ FilterFiles
  \/ SkipUnreadable
  \/ RequestTest
  \/ ReceiveTest
  \/ WaitDone
  \/ ReturnResults

SpecTests == InitTests /\ [][NextTests]_vars

\* ------------------------------------------------------------------------
\* run(), processBranchChanges(), execGitCommand and reviewChangesWithAI
\* ------------------------------------------------------------------------

\* values of the `excluded-files` input of a run
RunExcludedInputs == { <<>>, <<" ","g"," ",",">>, <<"*","(">> }

\* what `git fetch origin main` writes: nothing to stdout, its report to
\* stderr
FetchStderr == { <<"F","r","o","m"," ","o","r","i","g","i","n","\n">> }

\* chunks `git diff origin/main...HEAD` writes to stdout
DiffStdout == { HeaderLine(PathF) \o HunkLine, HeaderLine(PathG) \o HunkLine }

\* a warning `git diff` writes to stderr while it exits with 0
DiffStderr == { <<"w","a","r","n","i","n","g",":"," ","C","R","L","F","\n">> }

\* error.message of a rejected chat completion request
ApiErrorMessage == <<"4","2","9">>

\* response.choices[0].message.content of a request that succeeded
ReviewReply == <<"L","G","T","M">>

\* faulty variant: the file is not named in the message
FailedReviewMessageOnly(name, message) == <<"F","a","i","l","e","d"," ","t","o"," ","r","e","v","i","e","w",":"," ">> \o message

\* `Failed to review ${fileName}: ${error.message}`
FailedReview(name, message) ==
  <<"F","a","i","l","e","d"," ","t","o"," ","r","e","v","i","e","w"," ">> \o name \o <<":"," ">> \o message

\* core.setFailed(`Failed to process branch changes: ${error.message}`)
FailedToProcess == <<"F","a","i","l","e","d"," ","t","o"," ","p","r","o","c","e","s","s"," ","b","r","a","n","c","h"," ","c","h","a","n","g","e","s",":"," ">>

\* isAIReviewEnabled()
isAIReviewEnabled(input, env) == IsTruthy(getOpenAIConfig(input, env))

\* records a caller may hand to reviewChangesWithAI
ReviewFiles ==
  { [fileName |-> name, diff |-> HeaderLine(name) \o HunkLine] :
      name \in {PathF, PathG} }

InitRun ==
  /\ excludedFiles \in RunExcludedInputs
  /\ apiKeyInput \in ApiKeys
  /\ envApiKey \in ApiKeys
  /\ generateTests = <<>>
  /\ changedFiles = <<>>
  /\ testableFiles = <<>>
  /\ fileIndex = 0
  /\ testResults = <<>>
  /\ apiCalls = <<>>
  /\ writes = <<>>
  /\ generationEnabled = "none"
  /\ filePath = <<>>
  /\ testConfig = NoConfig
  /\ GitDiffIdle
  /\ caller = "run"
  /\ failed = <<>>
  /\ successLogged = FALSE
  /\ output = <<>>
  /\ stdoutText = <<>>
  /\ reviewResults = <<>>
  /\ timeline = <<>>
  /\ outstanding = 0
  /\ successCount = 0
  /\ received = 0
  /\ pc = "run"

\* reviewChangesWithAI(files) called by itself
InitReview ==
  /\ excludedFiles = <<>>
  /\ apiKeyInput \in ApiKeys
  /\ envApiKey \in ApiKeys
  /\ generateTests = <<>>
  /\ changedFiles = <<>>
  /\ testableFiles = <<>>
  /\ fileIndex = 0
  /\ testResults = <<>>
  /\ apiCalls = <<>>
  /\ writes = <<>>
  /\ generationEnabled = "none"
  /\ filePath = <<>>
  /\ testConfig = NoConfig
  /\ diffOutput = <<>>
  /\ customExclusions = <<>>
  /\ lastIndex = 0
  /\ files = <<>>
  /\ filteredFiles \in Lists(ReviewFiles, MaxFiles)
  /\ fileName = <<>>
  /\ excluded = "none"
  /\ pattern = <<>>
  /\ matched = "none"
  /\ caller = "review"
  /\ failed = <<>>
  /\ successLogged = FALSE
  /\ output = <<>>
  /\ stdoutText = <<>>
  /\ reviewResults = <<>>
  /\ timeline = <<>>
  /\ outstanding = 0
  /\ successCount = 0
  /\ received = 0
  /\ pc = "review"

\* run: getActionConfig, await wait(config.waitTime), core.setOutput
RunStart ==
  /\ pc = "run"
  /\ pc' = "main"
  /\ UNCHANGED <<gitDiffVars, mainVars, testGenVars, runVars>>

\* run: wait rejects; the catch block of run marks the action failed
RunCatch ==
  /\ pc = "run"
  /\ failed' = <<"m","i","l","l","i","s","e","c","o","n","d","s"," ","i","s"," ","n","o","t"," ","a"," ","n","u","m","b","e","r">>
  /\ pc' = "done"
  /\ UNCHANGED <<gitDiffVars, mainVars, testGenVars, caller, successLogged,
                 output, stdoutText, reviewResults, timeline, outstanding,
                 successCount, received>>

\* getChangedFiles: fetchMainBranch calls execGitCommand, output = ''
StartFetch ==
  /\ pc = "getChangedFiles"
  /\ caller = "run"
  /\ output' = <<>>
  /\ stdoutText' = <<>>
  /\ received' = 0
  /\ pc' = "fetching"
  /\ UNCHANGED <<gitDiffVars, mainVars, testGenVars, caller, failed,
                 successLogged, reviewResults, timeline, outstanding,
                 successCount>>

\* the stdout listener of the running git command is called with a chunk
StdoutListener ==
  /\ pc \in {"fetching", "diffing"}
  /\ received < MaxData
  /\ \E data \in IF pc = "diffing" THEN DiffStdout ELSE {} :
       /\ output' = output \o data
       /\ stdoutText' = stdoutText \o data
  /\ received' = received + 1
  /\ UNCHANGED <<gitDiffVars, mainVars, testGenVars, caller, failed,
                 successLogged, reviewResults, timeline, outstanding,
                 successCount, pc>>

\* the stderr listener of the running git command is called with a chunk
StderrListener ==
  /\ pc \in {"fetching", "diffing"}
  /\ received < MaxData
  /\ \E data \in IF pc = "diffing" THEN DiffStderr ELSE FetchStderr :
       output' = output \o data
  /\ received' = received + 1
  /\ UNCHANGED <<gitDiffVars, mainVars, testGenVars, caller, failed,
                 successLogged, stdoutText, reviewResults, timeline,
                 outstanding, successCount, pc>>

\* git fetch exits with 0; its output is dropped and getBranchDiff calls
\* execGitCommand, output = ''
FetchExit ==
  /\ pc = "fetching"
  /\ output' = <<>>
  /\ stdoutText' = <<>>
  /\ received' = 0
  /\ pc' = "diffing"
  /\ UNCHANGED <<gitDiffVars, mainVars, testGenVars, caller, failed,
                 successLogged, reviewResults, timeline, outstanding,
                 successCount>>

\* git diff exits with 0: execGitCommand returns output, which is diffOutput
DiffExit ==
  /\ pc = "diffing"
  /\ diffOutput' = output
  /\ pc' = "check"
  /\ UNCHANGED <<customExclusions, lastIndex, files, filteredFiles,
                 fileName, excluded, pattern, matched>>
  /\ UNCHANGED <<mainVars, testGenVars, runVars>>

\* exec.exec rejects (git exits with another code); the catch block of
\* getChangedFiles throws "Failed to get changed files"
ExecRejects ==
  /\ pc \in {"fetching", "diffing"}
  /\ pc' = "threw"
  /\ UNCHANGED <<gitDiffVars, mainVars, testGenVars, runVars>>

\* processBranchChanges: files.length === 0, return
NoChanges ==
  /\ caller = "run"
  /\ \/ pc = "returnedEmpty"
     \/ pc = "returned" /\ Len(filteredFiles) = 0
  /\ pc' = "processed"
  /\ UNCHANGED <<gitDiffVars, mainVars, testGenVars, runVars>>

\* processBranchChanges: isAIReviewEnabled() is false
SkipReview ==
  /\ caller = "run"
  /\ pc = "returned"
  /\ Len(filteredFiles) # 0
  /\ ~isAIReviewEnabled(apiKeyInput, envApiKey)
  /\ pc' = "processed"
  /\ UNCHANGED <<gitDiffVars, mainVars, testGenVars, runVars>>

\* processBranchChanges: await reviewChangesWithAI(files)
CallReview ==
  /\ caller = "run"
  /\ pc = "returned"
  /\ Len(filteredFiles) # 0
  /\ isAIReviewEnabled(apiKeyInput, envApiKey)
  /\ pc' = "review"
  /\ UNCHANGED <<gitDiffVars, mainVars, testGenVars, runVars>>

\* processBranchChanges: the catch block
SetFailed ==
  /\ caller = "run"
  /\ pc = "threw"
  /\ failed' = FailedToProcess
  /\ pc' = "processed"
  /\ UNCHANGED <<gitDiffVars, mainVars, testGenVars, caller, successLogged,
                 output, stdoutText, reviewResults, timeline, outstanding,
                 successCount, received>>

\* reviewChangesWithAI: no configuration, or no files: return []
ReviewReturnsEarly ==
  /\ pc = "review"
  /\ \/ ~IsTruthy(getOpenAIConfig(apiKeyInput, envApiKey))
     \/ Len(filteredFiles) = 0
  /\ pc' = "reviewed"
  /\ UNCHANGED <<gitDiffVars, mainVars, testGenVars, runVars>>

\* reviewChangesWithAI: createOpenAIClient, loadReviewInstructions,
\* reviewResults = []
StartReview ==
  /\ pc = "review"
  /\ IsTruthy(getOpenAIConfig(apiKeyInput, envApiKey))
  /\ Len(filteredFiles) # 0
  /\ timeline' = Append(timeline, Event("client", <<>>, 0))
  /\ reviewResults' = <<>>
  /\ pc' = "reviewLoop"
  /\ UNCHANGED <<gitDiffVars, mainVars, testGenVars, caller, failed,
                 successLogged, output, stdoutText, outstanding,
                 successCount, received>>

\* the file the loop of reviewChangesWithAI is at
ReviewFile == filteredFiles[Len(reviewResults) + 1]

\* reviewFileWithAI sends the chat completion request
RequestReview ==
  /\ pc = "reviewLoop"
  /\ Len(reviewResults) < Len(filteredFiles)
  /\ timeline' = Append(timeline, Event("request", ReviewFile.fileName, 0))
  /\ outstanding' = outstanding + 1
  /\ pc' = "reviewAwait"
  /\ UNCHANGED <<gitDiffVars, mainVars, testGenVars, caller, failed,
                 successLogged, output, stdoutText, reviewResults,
                 successCount, received>>

\* what reviewFileWithAI returns
Review(name, outcome) ==
  IF outcome = "ok" THEN ReviewReply ELSE FailedReview(name, ApiErrorMessage)

\* the request settles; reviewFileWithAI returns the review or, from its
\* catch block, the error message; the result is pushed and the loop waits
\* unless the file is the last one
ReceiveReview ==
  /\ pc = "reviewAwait"
  /\ \E outcome \in {"ok", "failed"} :
       LET settled == IF outcome = "ok" THEN timeline
                      ELSE Append(timeline, Event("error", ReviewFile.fileName, 0))
       IN  /\ reviewResults' =
                Append(reviewResults,
                       [fileName |-> ReviewFile.fileName,
                        content |-> Review(ReviewFile.fileName, outcome)])
           /\ IF Len(reviewResults) + 1 < Len(filteredFiles)
              THEN /\ timeline' = Append(settled, Event("wait", <<>>, RateLimitDelay))
                   /\ pc' = "reviewWaiting"
              ELSE /\ timeline' = settled
                   /\ pc' = "reviewLoop"
  /\ outstanding' = outstanding - 1
  /\ UNCHANGED <<gitDiffVars, mainVars, testGenVars, caller, failed,
                 successLogged, output, stdoutText, successCount, received>>

\* await wait(1000) is over
ReviewWaitDone ==
  /\ pc = "reviewWaiting"
  /\ pc' = "reviewLoop"
  /\ UNCHANGED <<gitDiffVars, mainVars, testGenVars, runVars>>

\* the loop is over: return reviewResults
ReturnReviews ==
  /\ pc = "reviewLoop"
  /\ Len(reviewResults) = Len(filteredFiles)
  /\ pc' = "reviewed"
  /\ UNCHANGED <<gitDiffVars, mainVars, testGenVars, runVars>>

\* processBranchChanges returns after the review
ReviewReturned ==
  /\ caller = "run"
  /\ pc = "reviewed"
  /\ pc' = "processed"
  /\ UNCHANGED <<gitDiffVars, mainVars, testGenVars, runVars>>

\* run: core.info('Action completed successfully!')
LogSuccess ==
  /\ pc = "processed"
  /\ successLogged' = TRUE
  /\ pc' = "done"
  /\ UNCHANGED <<gitDiffVars, mainVars, testGenVars, caller, failed, output,
                 stdoutText, reviewResults, timeline, outstanding,
                 successCount, received>>

\* a run of the action, a call of reviewChangesWithAI, or a call of
\* generateTestsForChanges
InitAction == InitRun \/ InitReview \/ InitTests

NextAction ==
  \/ RunStart
  \/ RunCatch
  \/ ReadExcludedFiles
  \/ StartFetch
  \/ StdoutListener
  \/ StderrListener
  \/ FetchExit
  \/ DiffExit
  \/ ExecRejects
  \/ ReturnNoChanges
  \/ CallParseGitDiff
  \/ FilteredSkip
  \/ FilteredIteration
  \/ FilteredThrow
  \/ FilteredReturn
  \/ NoChanges
  \/ SkipReview
  \/ CallReview
  \/ SetFailed
  \/ ReviewReturnsEarly
  \/ StartReview
  \/ RequestReview
  \/ ReceiveReview
  \/ ReviewWaitDone
  \/ ReturnReviews
  \/ ReviewReturned
  \/ LogSuccess
  \/ CallIsTestGenerationEnabled
  \/ ReturnEarly
  \/ LoadTestInstructions
  \/ FilterFiles
  \/ SkipUnreadable
  \/ RequestTest
  \/ ReceiveTest
  \/ WaitDone
  \/ ReturnResults

SpecAction == InitAction /\ [][NextAction]_vars

\* ------------------------------------------------------------------------
\* Header lines of a diff text, read line by line (independently of the
\* regular expression)
\* ------------------------------------------------------------------------

\* offsets at which a line of s begins
LineStarts(s) ==
  {b \in 0..(Len(s) - 1) : b = 0 \/ s[b] = "\n"}

\* offset of the "\n" that ends the line beginning at b, Len(s) if it has none
LineFeedOf(s, b) ==
  IF \E k \in b..(Len(s) - 1) : s[k + 1] = "\n"
  THEN Min({k \in b..(Len(s) - 1) : s[k + 1] = "\n"})
  ELSE Len(s)

\* the line beginning at b is a header line: it reads
\* diff --git a/<path> b/<path> and is ended by a line feed
IsHeaderLine(s, b) ==
  /\ b \in LineStarts(s)
  /\ OccursAt(s, HeaderPrefix, b)
  /\ LineFeedOf(s, b) < Len(s)
  /\ \E j \in (b + Len(HeaderPrefix))..(LineFeedOf(s, b) - Len(HeaderSep)) :
       OccursAt(s, HeaderSep, j)

HeaderLineStarts(s) == {b \in LineStarts(s) : IsHeaderLine(s, b)}

\* the i-th smallest element of a finite set of numbers
RECURSIVE Nth(_, _)
Nth(S, i) == IF i = 1 THEN Min(S) ELSE Nth(S \ {Min(S)}, i - 1)

\* the path after a/ in the header line beginning at b
HeaderLinePath(s, b) ==
  LET g == b + Len(HeaderPrefix)
  IN  Substring(s, g, Min({j \in g..Len(s) : OccursAt(s, HeaderSep, j)}))

RECURSIVE ConcatDiffs(_)
\* the diff fields of the records, concatenated in order
ConcatDiffs(fs) ==
  IF fs = <<>> THEN <<>> ELSE Head(fs).diff \o ConcatDiffs(Tail(fs))

\* ------------------------------------------------------------------------
\* Claims about the unfiltered segmenter
\* ------------------------------------------------------------------------

\* the unfiltered parseGitDiff has returned files
PlainReturned == pc \in {"filtered", "returned", "threw"}

\* C1 (monotonic scan, P3): for a diff with two real file sections whose
\* first section's body holds a hunk line that reads like a header,
\* parseGitDiff returns exactly 2 records, one per real header, and the
\* second record's diff starts at the real second header.
C1_MonotonicScan ==
  \A p \in RealPaths : \A q \in RealPaths \ {p} :
    (PlainReturned
       /\ diffOutput = HeaderLine(p) \o HunkHeaderText \o HeaderLine(q))
    => /\ Len(files) = 2
       /\ files[1].fileName = p
       /\ files[2].fileName = q
       /\ files[2].diff = HeaderLine(q)

\* C2 (segmentation completeness, P1): a diff text with N header lines gives
\* exactly N records, the i-th record named after the i-th header line.
C2_SegmentationCompleteness ==
  PlainReturned =>
    LET hs == HeaderLineStarts(diffOutput)
    IN  /\ Len(files) = Cardinality(hs)
        /\ \A i \in 1..Len(files) :
             files[i].fileName = HeaderLinePath(diffOutput, Nth(hs, i))

\* offsets at which the segmenter recognizes a header
RecognizedStarts(s) == {i \in 0..(Len(s) - 1) : MatchesAt(s, i)}

\* C3 (span coverage, P2): when the input holds a header, the diff fields of
\* the returned records, concatenated in order, are the input from the first
\* recognized header's start to the end of the input: no gap, no overlap.
C3_SpanCoverage ==
  (PlainReturned /\ RecognizedStarts(diffOutput) # {}) =>
    /\ files # <<>>
    /\ ConcatDiffs(files)
         = Substring(diffOutput, Min(RecognizedStarts(diffOutput)),
                     Len(diffOutput))

\* a run with three records whose first header is not at offset 0
C3_Witness ==
  /\ PlainReturned
  /\ Len(files) = 3
  /\ Min(RecognizedStarts(diffOutput)) > 0
  /\ files[1].diff # files[2].diff

\* ------------------------------------------------------------------------
\* Claims about the exclusion filter
\* ------------------------------------------------------------------------

\* C4 (the filter is total): for every file name and every custom list,
\* shouldExcludeFile returns true or false and never raises an error.
C4_FilterTotal ==
  pc # "call" => (pc = "returned" /\ excluded \in {"true", "false"})

RECURSIVE LiteralSegments(_)
\* the texts between the `*` markers of a pattern, in order
LiteralSegments(p) ==
  IF ~Includes(p, <<"*">>) THEN <<p>>
  ELSE LET star == Min({k \in 1..Len(p) : p[k] = "*"})
       IN  <<SubSeq(p, 1, star - 1)>>
             \o LiteralSegments(SubSeq(p, star + 1, Len(p)))

RECURSIVE HoldsInOrder(_, _, _)
\* s holds the texts of segments one after the other, from offset from on
HoldsInOrder(segments, s, from) ==
  IF segments = <<>> THEN TRUE
  ELSE \E i \in from..(Len(s) - Len(Head(segments))) :
         /\ OccursAt(s, Head(segments), i)
         /\ HoldsInOrder(Tail(segments), s, i + Len(Head(segments)))

StarDotLog == <<"*",".","l","o","g">>

\* C5 (wildcard matching): a pattern with `*` matches a file name exactly
\* when the name holds, in order, the literal texts between the `*` markers,
\* every other pattern character (`.` too) matching only itself; `*.log`
\* matches a name only if the name holds the text `.log`.
C5_WildcardLiteral ==
  (pc = "returned" /\ Includes(pattern, <<"*">>)) =>
    /\ matched = "true" <=> HoldsInOrder(LiteralSegments(pattern), fileName, 0)
    /\ (pattern = StarDotLog /\ matched = "true")
         => Includes(fileName, <<".","l","o","g">>)

GeneratedSuffixes ==
  { <<".","m","i","n",".","j","s">>, <<".","m","i","n",".","c","s","s">>, <<".","b","u","n","d","l","e",".","j","s">>, <<".","c","h","u","n","k",".","j","s">> }

\* C6 (generated-file defaults): with no custom patterns every file whose
\* name ends with .min.js, .min.css, .bundle.js or .chunk.js is excluded.
C6_GeneratedFilesExcluded ==
  (pc = "returned" /\ customExclusions = <<>>
     /\ \E suffix \in GeneratedSuffixes : EndsWith(fileName, suffix))
  => excluded = "true"

\* the part of a path after its last `/`
BaseName(f) ==
  IF Includes(f, <<"/">>)
  THEN SubSeq(f, 1 + CHOOSE k \in 1..Len(f) :
                       f[k] = "/" /\ \A m \in (k + 1)..Len(f) : f[m] # "/",
              Len(f))
  ELSE f

\* C7 (environment-file defaults): with no custom patterns every file whose
\* base name starts with .env is excluded.
C7_EnvFilesExcluded ==
  (pc = "returned" /\ customExclusions = <<>>
     /\ StartsWith(BaseName(fileName), <<".","e","n","v">>))
  => excluded = "true"

\* C8 (exclusion defaults, P5): with an empty custom list, package-lock.json
\* and a/b/node_modules/x.js are excluded, src/app.js and notes.md.bak are
\* not.
C8_ExclusionDefaults ==
  (pc # "call" /\ customExclusions = <<>>) =>
    /\ pc = "returned"
    /\ fileName = <<"p","a","c","k","a","g","e","-","l","o","c","k",".","j","s","o","n">> => excluded = "true"
    /\ fileName = <<"a","/","b","/","n","o","d","e","_","m","o","d","u","l","e","s","/","x",".","j","s">> => excluded = "true"
    /\ fileName = <<"s","r","c","/","a","p","p",".","j","s">> => excluded = "false"
    /\ fileName = <<"n","o","t","e","s",".","m","d",".","b","a","k">> => excluded = "false"

\* the nested node_modules file has been excluded by the defaults
C8_Witness ==
  /\ pc = "returned"
  /\ customExclusions = <<>>
  /\ fileName = <<"a","/","b","/","n","o","d","e","_","m","o","d","u","l","e","s","/","x",".","j","s">>
  /\ excluded = "true"

\* the elements of a list
Range(l) == {l[i] : i \in 1..Len(l)}

\* C9 (pattern-set merge, P6): shouldExcludeFile(f, C) is true exactly when
\* f matches some default pattern or some pattern of C, whatever the order
\* of C.
C9_PatternSetMerge ==
  pc # "call" =>
    LET matching ==
          {p \in Range(defaultExcludePatterns) \cup Range(customExclusions) :
             PatternOutcome(p, fileName) = "true"}
    IN  (pc = "returned" /\ excluded = "true") <=> matching # {}

\* p is a directory-prefix pattern
IsDirectoryPattern(p) == EndsWith(p, <<"/">>) /\ ~Includes(p, <<"*">>)

\* p occurs in f where a path component begins: at the start of f or right
\* after a `/`
OccursAtComponent(f, p) ==
  \E i \in 0..(Len(f) - Len(p)) :
    OccursAt(f, p, i) /\ (i = 0 \/ f[i] = "/")

BuildDir == <<"b","u","i","l","d","/">>

\* C10 (directory-prefix matching): a pattern p that ends with `/` and has
\* no `*` matches f exactly when f starts with p or holds `/` followed by p;
\* build/ matches build/x.js and a/b/build/x.js, not rebuild/x.js nor build.
C10_DirectoryPrefix ==
  (pc # "callback" /\ IsDirectoryPattern(pattern)) =>
    /\ pc = "returned"
    /\ matched = "true" <=> OccursAtComponent(fileName, pattern)
    /\ pattern = BuildDir =>
         /\ fileName \in {<<"b","u","i","l","d","/","x",".","j","s">>, <<"a","/","b","/","b","u","i","l","d","/","x",".","j","s">>}
              => matched = "true"
         /\ fileName \in {<<"r","e","b","u","i","l","d","/","x",".","j","s">>, <<"b","u","i","l","d">>} => matched = "false"

\* build/ has matched a nested build directory
C10_Witness ==
  /\ pc = "returned"
  /\ pattern = BuildDir
  /\ fileName = <<"a","/","b","/","b","u","i","l","d","/","x",".","j","s">>
  /\ matched = "true"

\* a pattern of the third branch of the callback: no `*`, no trailing `/`
IsExactPattern(p) == ~Includes(p, <<"*">>) /\ ~EndsWith(p, <<"/">>)

\* p is the whole of f, or the end of f and right after a `/` of f
IsWholeTrailingPath(p, f) ==
  /\ Len(p) <= Len(f)
  /\ \A k \in 1..Len(p) : f[Len(f) - Len(p) + k] = p[k]
  /\ Len(f) > Len(p) => f[Len(f) - Len(p)] = "/"

License == <<"L","I","C","E","N","S","E">>

\* C11: a pattern with no `*` and no trailing `/` matches a file name exactly
\* when the name is the pattern or ends with `/` followed by the pattern; the
\* callback never throws for such a pattern.  `LICENSE` matches `LICENSE` and
\* `a/b/LICENSE` and does not match `MYLICENSE`, `LICENSE.bak`, `a/LICENSE/x`.
C11_ExactSuffix ==
  (pc # "callback" /\ IsExactPattern(pattern)) =>
     /\ pc = "returned"
     /\ matched = "true" <=> IsWholeTrailingPath(pattern, fileName)
     /\ (pattern = License /\ fileName \in {<<"L","I","C","E","N","S","E">>, <<"a","/","b","/","L","I","C","E","N","S","E">>})
          => matched = "true"
     /\ (pattern = License
          /\ fileName \in {<<"M","Y","L","I","C","E","N","S","E">>, <<"L","I","C","E","N","S","E",".","b","a","k">>, <<"a","/","L","I","C","E","N","S","E","/","x">>})
          => matched = "false"

C11_Witness ==
  /\ pc = "returned"
  /\ pattern = License
  /\ fileName = <<"a","/","b","/","L","I","C","E","N","S","E">>
  /\ matched = "true"

\* the names made from f by putting one character before it or after it
OneMore(f) ==
  {<<c>> \o f : c \in NameAlphabet} \cup {f \o <<c>> : c \in NameAlphabet}

\* C12: a wildcard pattern that matches a file name also matches every name
\* made from it by adding characters before it or after it (one character at
\* a time gives every such name); the custom pattern `*.log` matches
\* `foo.log` and `foo.logger.js`.
C12_WildcardOverMatch ==
  (pc = "returned" /\ Includes(pattern, <<"*">>)) =>
     /\ matched = "true" =>
          \A g \in OneMore(fileName) : PatternOutcome(pattern, g) = "true"
     /\ (pattern = StarDotLog
          /\ fileName \in {<<"f","o","o",".","l","o","g">>, <<"f","o","o",".","l","o","g","g","e","r",".","j","s">>})
          => matched = "true"

\* the three sections of the end-to-end scenario
ReadmeSection == HeaderLine(<<"R","E","A","D","M","E",".","m","d">>) \o HunkLine
IndexSection == HeaderLine(<<"s","r","c","/","i","n","d","e","x",".","j","s">>) \o HunkLine
LockHeader == HeaderLine(<<"p","a","c","k","a","g","e","-","l","o","c","k",".","j","s","o","n">>)

\* C13: for the diff with the headers README.md, src/index.js and
\* package-lock.json, in that order, the filtered parseGitDiff with an empty
\* custom list returns exactly the records README.md and src/index.js, in
\* that order, and the diff of the src/index.js record ends where the
\* package-lock.json header begins.
C13_EndToEnd ==
  (pc = "returned" /\ diffOutput = ScenarioDiff /\ customExclusions = <<>>) =>
     /\ Len(filteredFiles) = 2
     /\ filteredFiles[1].fileName = <<"R","E","A","D","M","E",".","m","d">>
     /\ filteredFiles[2].fileName = <<"s","r","c","/","i","n","d","e","x",".","j","s">>
     /\ filteredFiles[1].diff = ReadmeSection
     /\ filteredFiles[2].diff = IndexSection
     /\ OccursAt(diffOutput, LockHeader,
                 Len(filteredFiles[1].diff) + Len(filteredFiles[2].diff))

C13_Witness ==
  /\ pc = "returned"
  /\ diffOutput = ScenarioDiff
  /\ customExclusions = <<>>
  /\ Len(filteredFiles) = 2

\* C14 (empty input, P4): the filtered parseGitDiff returns an empty list for
\* every input that holds no header line (the empty string is one); when the
\* output of git diff is empty or white space only, getChangedFiles returns
\* an empty list and the parser is not called.
C14_EmptyInput ==
  /\ (pc = "returned" /\ HeaderLineStarts(diffOutput) = {})
        => filteredFiles = <<>>
  /\ (pc \notin {"fetch", "diff", "check", "threw"}
       /\ \A k \in 1..Len(diffOutput) : diffOutput[k] \in WhiteSpace)
        => (pc = "returnedEmpty" /\ filteredFiles = <<>>)

\* C15: in every result of parseGitDiff (unfiltered and filtered) no two
\* records have the same fileName.
C15_FileNameUnique ==
  /\ PlainReturned =>
       \A i \in 1..Len(files) : \A j \in 1..Len(files) :
          files[i].fileName = files[j].fileName => i = j
  /\ pc = "returned" =>
       \A i \in 1..Len(filteredFiles) : \A j \in 1..Len(filteredFiles) :
          filteredFiles[i].fileName = filteredFiles[j].fileName => i = j

\* the line that starts at offset b is `diff --git a/P b/P` for the path P
IsSamePathHeader(s, b, P) ==
  /\ ~\E k \in 1..Len(P) : IsLineTerminator(P[k])
  /\ OccursAt(s, HeaderLine(P), b)

\* the paths P of at most the length of s that occur in s
PathsIn(s) ==
  {Substring(s, i, j) : i \in 0..Len(s), j \in 0..Len(s)} \ {<<>>}

\* C16: for every header line `diff --git a/P b/P` of the input (the same
\* path P on both sides, P without a line break, spaces and the text ` b/`
\* allowed in P) the record made for that header has fileName P.
C16_FileNameExtraction ==
  pc = "returned" =>
     \A b \in LineStarts(diffOutput) : \A P \in PathsIn(diffOutput) :
        IsSamePathHeader(diffOutput, b, P) =>
           \E i \in 1..Len(files) :
              /\ files[i].fileName = P
              /\ StartsWith(files[i].diff, HeaderLine(P))

\* offsets of the commas of s, and the two ends of s as if commas were there
Bounds(s) == {0, Len(s) + 1} \cup {k \in 1..Len(s) : s[k] = ","}

\* the pieces of s between commas: pairs of the offsets that bound them
PieceBounds(s) ==
  {b \in Bounds(s) \X Bounds(s) :
     b[1] < b[2] /\ ~\E k \in Bounds(s) : b[1] < k /\ k < b[2]}

\* positions of the characters of the piece b of s that are not blank
Inked(s, b) == {k \in (b[1] + 1)..(b[2] - 1) : s[k] # " "}

\* the piece b of s from its first to its last character that is not blank
Stripped(s, b) == SubSeq(s, Min(Inked(s, b)), -Min({-k : k \in Inked(s, b)}))

\* the pieces of s that hold more than blanks
InkedPieces(s) == {b \in PieceBounds(s) : Inked(s, b) # {}}

\* C17: the list handed to getChangedFiles is made of the comma-separated
\* pieces of the `excluded-files` value, in their order, each without the
\* white space at its ends, the empty ones dropped: every custom pattern is
\* non-empty, has no white space at its ends and holds no comma; an empty or
\* all-blank value gives the empty list.
C17_CustomExclusionInput ==
  pc = "getChangedFiles" =>
     /\ \A i \in 1..Len(customExclusions) :
          LET p == customExclusions[i]
          IN  /\ p # <<>>
              /\ p[1] # " " /\ p[Len(p)] # " "
              /\ \A k \in 1..Len(p) : p[k] # ","
     /\ Len(customExclusions) = Cardinality(InkedPieces(excludedFiles))
     /\ \A b \in InkedPieces(excludedFiles) :
          LET i == Cardinality({c \in InkedPieces(excludedFiles) :
                                  c[1] <= b[1]})
          IN  customExclusions[i] = Stripped(excludedFiles, b)
     /\ (\A k \in 1..Len(excludedFiles) : excludedFiles[k] = " ")
          => customExclusions = <<>>

C17_Witness ==
  /\ pc = "getChangedFiles"
  /\ excludedFiles = <<"a",","," ",",","*","a">>
  /\ customExclusions = << <<"a">>, <<"*","a">> >>

\* the positions of the `/` of p
Slashes(p) == {k \in 1..Len(p) : p[k] = "/"}

\* p is d/n.x: d a directory, n a name that is not empty and x an extension
\* that holds no `.`
IsDirNameExt(p, d, n, x) ==
  /\ p = d \o <<"/">> \o n \o <<".">> \o x
  /\ n # <<>> /\ x # <<>>
  /\ Slashes(n) = {} /\ Slashes(x) = {}
  /\ \A k \in 1..Len(x) : x[k] # "."

\* p is d/n: d a directory, n a name without extension, that is without
\* `.` after its first character
IsDirName(p, d, n) ==
  /\ p = d \o <<"/">> \o n
  /\ n # <<>>
  /\ Slashes(n) = {}
  /\ \A k \in 2..Len(n) : n[k] # "."

\* the part of p between the offsets i and j, both left out
Between(p, i, j) == SubSeq(p, i + 1, j - 1)

\* what the claim names for the source file d/n.x
NamedConfig(d, n, x) ==
  IF x \in {<<"j","s">>, <<"t","s">>, <<"j","s","x">>, <<"t","s","x">>}
  THEN [path |-> d \o <<"/">> \o n \o <<".","t","e","s","t",".">> \o x, framework |-> "jest"]
  ELSE IF x = <<"p","y">>
  THEN [path |-> d \o <<"/","t","e","s","t","_">> \o n \o <<".","p","y">>, framework |-> "pytest"]
  ELSE IF x = <<"j","a","v","a">>
  THEN [path |-> d \o <<"/">> \o n \o <<"T","e","s","t",".","j","a","v","a">>, framework |-> "junit"]
  ELSE [path |-> d \o <<"/">> \o n \o <<".","t","e","s","t",".","j","s">>, framework |-> "jest"]

\* C20: for a source file dir/name.ext getTestConfig returns
\* dir/name.test.<ext> and jest for ext js, ts, jsx, tsx, dir/test_name.py and
\* pytest for py, dir/nameTest.java and junit for java, dir/name.test.js and
\* jest for every other extension and for a name without extension; the test
\* file is in the directory of the source file.
C20_TestPathAndFramework ==
  pc = "returned" /\ filePath # <<>> =>
     LET p == filePath
         end == Len(p) + 1
     IN  /\ \A i \in Slashes(p) :
              LET d == Between(p, 0, i)
              IN  /\ \A j \in (i + 1)..Len(p) :
                       IsDirNameExt(p, d, Between(p, i, j), Between(p, j, end))
                         => testConfig = NamedConfig(d, Between(p, i, j),
                                                     Between(p, j, end))
                  /\ IsDirName(p, d, Between(p, i, end))
                       => testConfig =
                            [path |-> d \o <<"/">> \o Between(p, i, end)
                                        \o <<".","t","e","s","t",".","j","s">>,
                             framework |-> "jest"]
         /\ Slashes(testConfig.path) # {}
         /\ LET cut == Max(Slashes(testConfig.path))
                own == IF Slashes(p) = {} THEN <<".">>
                       ELSE Between(p, 0, Max(Slashes(p)))
            IN  Between(testConfig.path, 0, cut) = own

C20_Witness ==
  /\ pc = "returned"
  /\ filePath = <<"a","/","b","/","A","p","p",".","p","y">>
  /\ testConfig = [path |-> <<"a","/","b","/","t","e","s","t","_","A","p","p",".","p","y">>, framework |-> "pytest"]

\* C18: when `generate-tests` is not exactly `true` (not set included),
\* generateTestsForChanges returns an empty list, requests no completion and
\* writes no file; isTestGenerationEnabled returns true only when the input
\* is `true` and an API key is there (as input or in the environment).
C18_TestGenerationOptIn ==
  /\ generateTests # <<"t","r","u","e">> =>
       /\ pc \in {"generateTests", "returned"}
       /\ testResults = <<>>
       /\ apiCalls = <<>>
       /\ writes = <<>>
  /\ generationEnabled = "true" =>
       /\ generateTests = <<"t","r","u","e">>
       /\ apiKeyInput # <<>> \/ envApiKey # <<>>

C18_Witness ==
  /\ pc = "returned"
  /\ generateTests = <<>>
  /\ apiKeyInput = <<"s","k">>
  /\ changedFiles = << <<"s","r","c","/","a","p","p",".","j","s">> >>
  /\ generationEnabled = "false"
  /\ testResults = <<>>

\* the name, lower-cased, holds one of the markers or ends with one of the
\* endings of files no test is generated for
IsSkippedName(name) ==
  \/ \E marker \in { <<".","t","e","s","t",".">>, <<".","s","p","e","c",".">>, <<"_","_","t","e","s","t","s","_","_">>, <<".","c","o","n","f","i","g",".">>,
                      <<".","m","i","n",".">> } : Includes(toLowerCase(name), marker)
  \/ \E ending \in { <<".","m","d">>, <<".","j","s","o","n">>, <<".","y","m","l">>, <<".","y","a","m","l">> } :
       EndsWith(toLowerCase(name), ending)

\* the changed files of the model no test is generated for
SkippedNames == {name \in ChangedNames : IsSkippedName(name)}

\* positions in changedFiles of the files that are not skipped
KeptPositions ==
  {i \in 1..Len(changedFiles) : changedFiles[i] \notin SkippedNames}

\* C19: no completion is requested and no test file is written for a changed
\* file whose lower-cased name holds `.test.`, `.spec.`, `__tests__`,
\* `.config.` or `.min.` or ends with `.md`, `.json`, `.yml` or `.yaml`;
\* every other changed file is testable, and the testable files keep the
\* order of the input.
C19_TestGenerationFiltering ==
  /\ \A k \in 1..Len(apiCalls) : apiCalls[k] \notin SkippedNames
  /\ \A k \in 1..Len(writes) : writes[k].fileName \notin SkippedNames
  /\ \A k \in 1..Len(testResults) :
       testResults[k].fileName \notin SkippedNames
  /\ pc \in {"loop", "awaiting", "waiting"} =>
       /\ Len(testableFiles) = Cardinality(KeptPositions)
       /\ \A i \in KeptPositions :
            testableFiles[Cardinality({j \in KeptPositions : j <= i})]
              = changedFiles[i]

C19_Witness ==
  /\ pc = "returned"
  /\ changedFiles = << <<"s","r","c","/","A","p","p",".","T","e","s","t",".","j","s">>, <<"m","a","i","n",".","p","y">> >>
  /\ apiCalls = << <<"m","a","i","n",".","p","y">> >>
  /\ Len(writes) = 1

\* C22 (fail-soft test generation): a step that skips a file whose content is
\* unreadable or empty requests nothing and adds no result; a failed request
\* gives a result with success = false (no test configuration) and nothing
\* written; every request has its result, in order; no failure ends the loop
\* early: generateTestsForChanges returns from the loop only after the last
\* testable file.
C22_FailSoftTestGeneration ==
  /\ [](/\ \A k \in 1..Len(testResults) :
            /\ testResults[k].fileName = apiCalls[k]
            /\ testResults[k].success <=> testResults[k].path # <<>>
            /\ ~testResults[k].success =>
                 /\ testResults[k].written = "undefined"
                 /\ Cardinality({j \in 1..k : testResults[j].written = "true"})
                      = Cardinality({j \in 1..(k - 1) :
                                       testResults[j].written = "true"})
        /\ Len(writes) = Cardinality({k \in 1..Len(testResults) :
                                        testResults[k].written = "true"})
        /\ (pc = "returned" /\ testableFiles # <<>>)
             => fileIndex = Len(testableFiles) + 1)
  /\ [][(pc = "loop" /\ pc' = "loop")
          => /\ fileIndex' = fileIndex + 1
             /\ apiCalls' = apiCalls
             /\ testResults' = testResults
             /\ writes' = writes]_vars

C22_Witness ==
  /\ pc = "returned"
  /\ Len(testableFiles) = 2
  /\ Len(testResults) = 2
  /\ ~testResults[1].success
  /\ testResults[2].written = "true"

\* C29 (writes follow successes): every test file written belongs to a result
\* with success and content, whose request came before; the requests are
\* for testable files, each position at most once and in order, so at most
\* one write is attempted per testable file; the count logged in
\* `Generated <n> test file(s)` is the number of writes that succeeded.
C29_WritesFollowSuccesses ==
  /\ \A w \in 1..Len(writes) :
       \E k \in 1..Len(testResults) :
          /\ testResults[k].success
          /\ testResults[k].written = "true"
          /\ testResults[k].fileName = writes[w].fileName
          /\ testResults[k].path = writes[w].path
          /\ apiCalls[k] = writes[w].fileName
  /\ Len(writes) <= Len(testResults)
  /\ Len(testResults) <= Len(apiCalls)
  /\ \E at \in [1..Len(apiCalls) -> 1..Len(testableFiles)] :
       /\ \A i \in 1..Len(apiCalls) : testableFiles[at[i]] = apiCalls[i]
       /\ \A i \in 1..Len(apiCalls) : \A j \in 1..Len(apiCalls) :
            i < j => at[i] < at[j]
  /\ (pc = "returned" /\ testableFiles # <<>>) => successCount = Len(writes)

C29_Witness ==
  /\ pc = "returned"
  /\ Len(testResults) = 2
  /\ testResults[1].written = "false"
  /\ testResults[2].written = "true"
  /\ successCount = 1

\* C30 (no clobbering): in one run the test files written for distinct
\* source files have distinct paths, and no test file is written to the path
\* of a file of the change set.
C30_NoClobbering ==
  /\ \A v \in 1..Len(writes) : \A w \in 1..Len(writes) :
       writes[v].fileName # writes[w].fileName
         => writes[v].path # writes[w].path
  /\ \A w \in 1..Len(writes) : \A i \in 1..Len(changedFiles) :
       writes[w].path # changedFiles[i]

\* the record is kept by the filter
IsKept(record) == ShouldExcludeFile(record.fileName, customExclusions) = "false"

\* C24 (fused filter equals segment-then-filter): when the filter does not
\* raise, the filtered parseGitDiff returns the records of the unfiltered
\* parseGitDiff whose fileName the filter does not exclude, in their order
\* and with their diff text.
C24_FusedFilter ==
  pc = "returned" => filteredFiles = SelectSeq(files, IsKept)

C24_Witness ==
  /\ pc = "returned"
  /\ customExclusions = <<PathG>>
  /\ Len(files) = 3
  /\ files[2].fileName = PathG
  /\ Len(filteredFiles) = 2

\* no pattern of the list holds `*`
NoWildcard(list) == \A i \in 1..Len(list) : ~Includes(list[i], <<"*">>)

\* C25 (totality and forward progress): with a custom list of non-wildcard
\* patterns both parseGitDiff loops end and never raise; in every pass of a
\* loop the header found is not before the scan position, and the scan
\* position after the pass is beyond the start of that header, so the scan
\* position and the start offsets of the records grow strictly and no header
\* is the record header of two passes.
C25_ForwardProgress ==
  /\ [][(pc \in {"plain", "filtered"} /\ pc' = pc) =>
          LET match == Exec(diffOutput, lastIndex)
          IN  /\ match.found
              /\ lastIndex <= match.index
              /\ match.index < lastIndex'
              /\ lastIndex < lastIndex']_vars
  /\ [](NoWildcard(customExclusions) => pc # "threw")
  /\ <>(pc = "returned" \/ ~NoWildcard(customExclusions))

C25_Witness ==
  /\ pc = "returned"
  /\ customExclusions = <<>>
  /\ Len(filteredFiles) = 3
  /\ lastIndex = 0

\* the requests among the first p events of the timeline
RequestsUpTo(p) == {q \in 1..p : timeline[q].kind = "request"}

\* reviewChangesWithAI went into its loop
ReviewStarted == timeline # <<>> /\ timeline[1].kind = "client"

\* C21 (fail-soft review): a request that fails does not end
\* reviewChangesWithAI: the result of the file is pushed with
\* `Failed to review <fileName>: ...` as its content, and the loop goes on;
\* when the function returns from the loop, every file was requested once
\* and the list has one entry for each input file, in the order of the input.
C21_FailSoftReview ==
  /\ \A k \in 1..Len(reviewResults) :
       reviewResults[k].fileName = filteredFiles[k].fileName
  /\ \A p \in 1..Len(timeline) :
       timeline[p].kind = "error" /\ caller # "none" =>
         LET k == Cardinality(RequestsUpTo(p))
         IN  /\ k <= Len(reviewResults)
             /\ reviewResults[k].fileName = timeline[p].fileName
             /\ StartsWith(reviewResults[k].content,
                           <<"F","a","i","l","e","d"," ","t","o"," ","r","e","v","i","e","w"," ">> \o timeline[p].fileName
                             \o <<":"," ">>)
  /\ (pc \in {"reviewed", "processed", "done"} /\ ReviewStarted) =>
       /\ Len(reviewResults) = Len(filteredFiles)
       /\ Cardinality(RequestsUpTo(Len(timeline))) = Len(filteredFiles)

C21_Witness ==
  /\ pc = "reviewed"
  /\ Len(filteredFiles) = 2
  /\ Len(reviewResults) = 2
  /\ reviewResults[1].content = FailedReview(filteredFiles[1].fileName,
                                               ApiErrorMessage)
  /\ reviewResults[2].content = ReviewReply

\* the requests and the waits of the timeline
IsApiEvent(event) == event.kind \in {"request", "wait"}
ApiTimeline == SelectSeq(timeline, IsApiEvent)

\* the run of reviewChangesWithAI or generateTestsForChanges is over
LoopOver == pc \in {"returned", "reviewed", "processed", "done"}

\* C23 (sequential, rate-limited calls): at most one request is outstanding;
\* two consecutive requests of a run have one wait of 1000 ms between them;
\* no wait follows the last request of the run.
C23_RateLimitedCalls ==
  /\ outstanding <= 1
  /\ \A p \in 1..Len(ApiTimeline) :
       /\ ApiTimeline[p].kind = "wait" => ApiTimeline[p].ms = 1000
       /\ p < Len(ApiTimeline) =>
            ApiTimeline[p].kind # ApiTimeline[p + 1].kind
  /\ ApiTimeline # <<>> => ApiTimeline[1].kind = "request"
  /\ (LoopOver /\ ApiTimeline # <<>>) =>
       ApiTimeline[Len(ApiTimeline)].kind = "request"

\* neither `openai-api-key` nor OPENAI_API_KEY is set
NoKey == apiKeyInput = <<>> /\ envApiKey = <<>>

\* C26 (no key, no calls): with no key set isAIReviewEnabled is false,
\* reviewChangesWithAI and generateTestsForChanges return [] with no client
\* created and no request sent, and none of their steps marks the action
\* failed.
C26_NoKeyNoCalls ==
  /\ [](NoKey =>
         /\ ~isAIReviewEnabled(apiKeyInput, envApiKey)
         /\ timeline = <<>>
         /\ outstanding = 0
         /\ reviewResults = <<>>
         /\ testResults = <<>>
         /\ apiCalls = <<>>
         /\ writes = <<>>)
  /\ [][(NoKey /\ pc \in {"returned", "returnedEmpty", "review",
                           "generateTests"})
          => failed' = <<>>]_vars

C26_Witness ==
  /\ NoKey
  /\ caller = "run"
  /\ pc = "done"
  /\ Len(filteredFiles) = 2
  /\ successLogged
  /\ failed = <<>>

\* C27 (outcome reporting): `Action completed successfully!` is logged only
\* in a run that was never marked failed; a run whose git fetch or git diff
\* failed is marked failed with `Failed to process branch changes: ...` and
\* sends no request.
C27_OutcomeReporting ==
  /\ successLogged => failed = <<>>
  /\ failed # <<>> => timeline = <<>>

\* the text holds the piece
Holds(text, piece) == Includes(text, piece)

\* C28 (diff text purity): the text handed to parseGitDiff is what
\* `git diff origin/main...HEAD` wrote to stdout; no record's diff holds
\* text of another origin.
C28_DiffTextPurity ==
  (caller = "run" /\ pc \in {"filtered", "returned"}) =>
    /\ diffOutput = stdoutText
    /\ \A k \in 1..Len(filteredFiles) :
         Holds(stdoutText, filteredFiles[k].diff)

====
